---- MODULE Spec2Model ----
(***************************************************************************)
(* A model of mdify's scraper service (pkg/scraper/scraper.go): the retry  *)
(* loop of FetchWithRetries, the per-item pipeline ScrapeURL ->            *)
(* GetOutputPath -> SaveMarkdown, and the two batch drivers                *)
(* scrapeSequential and scrapeConcurrent with its worker goroutines.       *)
(*                                                                         *)
(* The HTTP client, the file system, the sleeper and the logger are the    *)
(* injected collaborators of Service: the client's and the file system's   *)
(* answers are chosen nondeterministically at every call, the sleeper and  *)
(* the logger record what they are given.                                  *)
(***************************************************************************)
EXTENDS Integers, Sequences, FiniteSets, Bags, TLC

\* Bounds of the model.
MaxUrls == 3            \* longest list of identifiers handed to ScrapeURLs
MaxWorkers == 3         \* largest Config.Workers
BatchMaxRetries == 1    \* largest Config.MaxRetries of a batch run
FetchMaxRetries == 3    \* largest Config.MaxRetries of a direct FetchWithRetries call
DiskMaxUrls == 2        \* longest list of a batch run against the disk
DiskMaxWorkers == 2     \* largest Config.Workers of a batch run against the disk
PathMaxLen == 4         \* most tokens after the host of an identifier given to GetOutputPath
DocMaxKids == 2         \* most children of an innermost element of a document

URLS == {"https://example.com/1", "https://example.com/2"}

\* Status codes the client may answer with: both edges of the 2xx range,
\* 404, and other non-success codes.
StatusCodes == {199, 200, 299, 300, 404, 500}
BatchStatusCodes == {200, 404, 500}

\* What HTTPClient.Get returns: a transport error or a response.
TransportError == [err |-> TRUE, StatusCode |-> 0]
Response(code) == [err |-> FALSE, StatusCode |-> code]
Responses == {TransportError} \cup {Response(c) : c \in StatusCodes}
BatchResponses == {TransportError} \cup {Response(c) : c \in BatchStatusCodes}

VARIABLES
    config,         \* Service.config: [MaxRetries, Workers]
    client,         \* Service.client: the injected HTTPClient
    fs,             \* Service.fs: the injected FileSystem
    urls,           \* the urls argument of ScrapeURLs
    main,           \* the frame of the goroutine that called the service
    workers,        \* the bag of the frames of the worker goroutines
    mainPc,         \* position of the calling goroutine in the batch driver
    i,              \* loop index of the calling goroutine
    numWorkers,     \* scrapeConcurrent's numWorkers
    wg,             \* the sync.WaitGroup counter
    jobs,           \* the jobs channel's buffer
    jobsClosed,     \* close(jobs) has happened
    results,        \* the results channel's buffer
    resultsClosed,  \* close(results) has happened
    waiterPc,       \* position of the goroutine of lines 273-276
    successCount,
    errorCount,
    messages,       \* the bag of the lines the batch drivers logged
    ret             \* what ScrapeURLs returned

vars == <<config, client, fs, urls, main, workers, mainPc, i, numWorkers, wg, jobs,
          jobsClosed, results, resultsClosed, waiterPc, successCount,
          errorCount, messages, ret>>

\* Everything but the frames of the goroutines and the collaborators.
shared == <<config, urls, mainPc, i, numWorkers, wg, jobs, jobsClosed, results,
            resultsClosed, waiterPc, successCount, errorCount, messages, ret>>

\* An HTTPClient and a FileSystem about which nothing is known: any answer
\* at any call.
AnyClient == [mock |-> FALSE]
AnyFileSystem == [observed |-> FALSE]

\* MockHTTPClient: the answer to every url is fixed (responses[url] is the
\* configured error or response, matches[url] tells whether the body served
\* parses and has an element the selector matches) and the calls are counted.
MockHTTPClient(responses, matches) ==
    [mock |-> TRUE, responses |-> responses, matches |-> matches,
     callCount |-> [u \in DOMAIN responses |-> 0]]

\* client.Get(url) may answer r.
Answers(url, r) == client.mock => r = client.responses[url]

\* The client after one Get(url): MockHTTPClient counts the call.
Called(url) ==
    IF client.mock THEN [client EXCEPT !.callCount[url] = @ + 1] ELSE client

\* A disk that starts empty: the directories and the files on it, each file
\* with the chunks written to it, the names Create was given, and the one
\* kind of call the disk refuses ("none" for a disk that refuses nothing).
Disk(refused) ==
    [observed |-> TRUE, refused |-> refused, directories |-> {},
     files |-> << >>, createdFiles |-> EmptyBag]

NilErr == [kind |-> "nil", StatusCode |-> 0]
NoRet == [kind |-> "none", cause |-> NilErr, tries |-> 0]
NoResult == [URL |-> "", idx |-> 0, Success |-> FALSE, Error |-> ""]

\* The frame of a goroutine that is not inside any call: pc is its position,
\* caller the function the item pipeline returns to, url and idx the
\* identifier in hand and its place in urls, attempt and lastErr the locals
\* of FetchWithRetries, events what the call in progress did so far, ret the
\* value FetchWithRetries returned, stage the step scrapeSequential saw fail,
\* result the Result of the item.
Idle == [pc |-> "off", caller |-> "", url |-> "", idx |-> 0, attempt |-> 0,
         lastErr |-> NilErr, events |-> <<>>, ret |-> NoRet, stage |-> "",
         result |-> NoResult]

\* The worker whose frame is f takes a step that leaves its frame as q. The
\* workers are a bag of frames: worker never reads its id.
WorkerDoes(f, q) ==
    /\ workers' = (workers (-) SetToBag({f})) (+) SetToBag({q})
    /\ UNCHANGED main

\* The goroutine whose frame is p takes a step of the item pipeline that
\* leaves its frame as q: a worker, or else the calling goroutine.
Does(p, q) ==
    IF p.caller = "worker" THEN WorkerDoes(p, q)
                           ELSE main' = q /\ UNCHANGED workers

Running == BagToSet(workers)

----------------------------------------------------------------------------
\* Result, and how an item ends.

\* The item failed at `stage`. scrapeSequential logs and counts the failure
\* where it happens (the frame keeps the stage until SeqReport has done so);
\* worker sets result.Success = false and result.Error, which the model
\* keeps as non-nil: the collector only prints it.
ItemFailed(p, stage) ==
    [Idle EXCEPT !.pc = "result", !.caller = p.caller,
                 !.stage = IF p.caller = "worker" THEN "" ELSE stage,
                 !.result = [URL |-> p.url, idx |-> p.idx, Success |-> FALSE,
                             Error |-> "err"]]

\* Every step of the item succeeded: the frame holds the successful Result.
ItemSaved(p) ==
    [Idle EXCEPT !.pc = "result", !.caller = p.caller,
                 !.result = [URL |-> p.url, idx |-> p.idx, Success |-> TRUE,
                             Error |-> ""]]

----------------------------------------------------------------------------
\* FetchWithRetries

\* A shift by attempt instead of attempt-1.
BackoffDurationShiftedByAttempt(attempt) == 2 ^ attempt

\* backoffDuration in seconds: 1<<uint(attempt-1)
BackoffDuration(attempt) == 2 ^ (attempt - 1)

\* FetchWithRetries returns rv to its caller: a direct caller keeps the
\* value and the record of the call; ScrapeURL goes on to read and extract
\* the body, or returns the error, which fails the item.
FetchReturn(p, rv) ==
    IF p.caller = "direct"
      THEN [p EXCEPT !.pc = "returned", !.ret = rv]
      ELSE IF rv.kind = "resp"
             THEN [Idle EXCEPT !.pc = "extract", !.caller = p.caller,
                               !.url = p.url, !.idx = p.idx]
             ELSE ItemFailed(p, "fetch")

\* The head of the for loop: the condition, and the branch on attempt > 0.
LoopHead(p) ==
    IF p.attempt <= config.MaxRetries
      THEN [p EXCEPT !.pc = IF p.attempt > 0 THEN "sleep" ELSE "get"]
      ELSE FetchReturn(p, [kind |-> "exhausted", cause |-> p.lastErr,
                           tries |-> config.MaxRetries + 1])

\* Entry of FetchWithRetries(url): lastErr is nil, attempt is 0.
FetchWithRetries(p) ==
    LoopHead([p EXCEPT !.attempt = 0, !.lastErr = NilErr, !.ret = NoRet])

\* The failure an attempt records in lastErr.
RecordedError(r) ==
    IF r.err THEN [kind |-> "transport", StatusCode |-> 0]
             ELSE [kind |-> "status", StatusCode |-> r.StatusCode]

\* lastErr set only while it is nil: the first failure is kept.
ContinueKeepsFirstError(p, r) ==
    LoopHead([p EXCEPT !.lastErr = IF p.lastErr = NilErr THEN RecordedError(r)
                                                        ELSE p.lastErr,
                       !.attempt = p.attempt + 1])

\* `continue`, or the end of the loop body: attempt++ and the loop head.
Continue(p, r) ==
    LoopHead([p EXCEPT !.lastErr = RecordedError(r), !.attempt = p.attempt + 1])

\* No branch for 404: it is retried like any other non-success status.
AfterGetRetries404(p, r) ==
    IF r.err THEN Continue(p, r)
    ELSE IF r.StatusCode >= 200 /\ r.StatusCode < 300
      THEN FetchReturn(p, [kind |-> "resp", cause |-> NilErr, tries |-> 0])
    ELSE Continue(p, r)

\* StatusCode > 200 as the lower edge of the success range.
AfterGetMisses200(p, r) ==
    IF r.err THEN Continue(p, r)
    ELSE IF r.StatusCode > 200 /\ r.StatusCode < 300
      THEN FetchReturn(p, [kind |-> "resp", cause |-> NilErr, tries |-> 0])
    ELSE IF r.StatusCode = 404
      THEN FetchReturn(p, [kind |-> "notfound", cause |-> NilErr, tries |-> 0])
    ELSE Continue(p, r)

\* Lines 95-111: what the loop body does with the answer r of client.Get.
AfterGet(p, r) ==
    IF r.err THEN Continue(p, r)
    ELSE IF r.StatusCode >= 200 /\ r.StatusCode < 300
      THEN FetchReturn(p, [kind |-> "resp", cause |-> NilErr, tries |-> 0])
    ELSE IF r.StatusCode = 404
      THEN FetchReturn(p, [kind |-> "notfound", cause |-> NilErr, tries |-> 0])
    ELSE Continue(p, r)

\* What the unit tests' logger, sleeper and client record of a direct call of
\* FetchWithRetries (MockLogger.messages, MockSleeper.sleepDurations,
\* MockHTTPClient.callCount): the calls made so far, in order. A batch run
\* keeps no such record.
Record(p, es) == IF p.caller = "direct" THEN p.events \o es ELSE p.events

\* The sleep before the "Retrying" line.
RetrySleepsFirst(p) ==
    LET d == BackoffDuration(p.attempt)
    IN [p EXCEPT !.pc = "get",
                 !.events = Record(p,
                    << [op |-> "Sleep", d |-> d],
                       [op |-> "Retrying", d |-> d, n |-> p.attempt + 1,
                        of |-> config.MaxRetries + 1] >>)]

\* Lines 89-93: the "Retrying" line and the sleep before a retry.
Retry(p) ==
    LET d == BackoffDuration(p.attempt)
    IN [p EXCEPT !.pc = "get",
                 !.events = Record(p,
                    << [op |-> "Retrying", d |-> d, n |-> p.attempt + 1,
                        of |-> config.MaxRetries + 1],
                       [op |-> "Sleep", d |-> d] >>)]

\* The goroutine with frame p sleeps before a retry.
Sleep(p) ==
    /\ p.pc = "sleep"
    /\ Does(p, Retry(p))
    /\ UNCHANGED <<client, fs>>
    /\ UNCHANGED shared

\* Line 95 and what follows: one client.Get, answered r, and its handling.
Get(p, r) ==
    /\ p.pc = "get"
    /\ Answers(p.url, r)
    /\ client' = Called(p.url)
    /\ Does(p, AfterGet([p EXCEPT !.events = Record(p,
                         << [op |-> "Get", err |-> r.err,
                             StatusCode |-> r.StatusCode] >>)], r))
    /\ UNCHANGED fs
    /\ UNCHANGED shared

----------------------------------------------------------------------------
\* Identifiers and paths as sequences of characters. A string is modelled as
\* the sequence of its tokens: "/", "?", "#" and "." stand for themselves,
\* "md", "index", a host name or a letter for a run of characters free of
\* those four, "https:" for the scheme with its colon, "%2E" for an escaped
\* ".".

\* strings.Index for a one-character separator: the first position of c in
\* s, 0 if there is none.
Index(s, c) ==
    IF \E k \in 1..Len(s) : s[k] = c
      THEN CHOOSE k \in 1..Len(s) : s[k] = c /\ \A j \in 1..(k - 1) : s[j] # c
      ELSE 0

HasPrefix(s, prefix) ==
    Len(s) >= Len(prefix) /\ SubSeq(s, 1, Len(prefix)) = prefix

HasSuffix(s, suffix) ==
    Len(s) >= Len(suffix) /\ SubSeq(s, Len(s) - Len(suffix) + 1, Len(s)) = suffix

TrimPrefix(s, prefix) ==
    IF HasPrefix(s, prefix) THEN SubSeq(s, Len(prefix) + 1, Len(s)) ELSE s

\* strings.Cut(s, c): what precedes and what follows the first c.
CutBefore(s, c) == IF Index(s, c) = 0 THEN s ELSE SubSeq(s, 1, Index(s, c) - 1)
CutAfter(s, c) == IF Index(s, c) = 0 THEN <<>> ELSE SubSeq(s, Index(s, c) + 1, Len(s))

RECURSIVE Split(_, _)
\* strings.Split(s, c)
Split(s, c) ==
    IF Index(s, c) = 0 THEN << s >>
                       ELSE << CutBefore(s, c) >> \o Split(CutAfter(s, c), c)

IsScheme(t) == t \in {"http:", "https:"}
IsEscape(t) == t = "%2E"

\* url.unescape of one token of a path.
Unescape(t) == IF t = "%2E" THEN "." ELSE t

ParseError == [err |-> TRUE, Scheme |-> "", Host |-> <<>>, Path |-> <<>>,
               RawQuery |-> <<>>, Fragment |-> <<>>]

\* The URL of url.Parse once its parts are split: an escape of an ASCII
\* character in the host is an error; the path is unescaped.
URL(scheme, host, path, query, fragment) ==
    IF \E k \in 1..Len(host) : IsEscape(host[k])
      THEN ParseError
      ELSE [err |-> FALSE,
            Scheme |-> scheme,
            Host |-> host,
            Path |-> [k \in 1..Len(path) |-> Unescape(path[k])],
            RawQuery |-> query,
            Fragment |-> fragment]

\* What follows "//": the host up to the first "/", and the path from it on.
ParseAuthority(scheme, authority, query, fragment) ==
    URL(scheme, CutBefore(authority, "/"),
        IF Index(authority, "/") = 0
          THEN <<>>
          ELSE SubSeq(authority, Index(authority, "/"), Len(authority)),
        query, fragment)

\* What follows the scheme, less the query: opaque (a scheme and no leading
\* "/"), or an authority after "//" and then the path, or the path.
ParseRest(scheme, rest, query, fragment) ==
    IF scheme # "" /\ ~HasPrefix(rest, << "/" >>)
      THEN URL(scheme, <<>>, <<>>, query, fragment)
    ELSE IF /\ HasPrefix(rest, << "/", "/" >>)
            /\ scheme # "" \/ ~HasPrefix(rest, << "/", "/", "/" >>)
      THEN ParseAuthority(scheme, SubSeq(rest, 3, Len(rest)), query, fragment)
    ELSE URL(scheme, <<>>, rest, query, fragment)

\* The scheme is taken and the query cut at the first "?".
ParseScheme(scheme, rest, fragment) ==
    ParseRest(scheme, CutBefore(rest, "?"), CutAfter(rest, "?"), fragment)

\* The URL less its fragment.
ParseNoFragment(u, fragment) ==
    IF u # <<>> /\ IsScheme(u[1]) THEN ParseScheme(u[1], Tail(u), fragment)
                                  ELSE ParseScheme("", u, fragment)

\* url.Parse: the fragment is cut at the first "#", then the rest is parsed.
Parse(rawURL) == ParseNoFragment(CutBefore(rawURL, "#"), CutAfter(rawURL, "#"))

RECURSIVE CleanSegments(_, _, _)
\* The loop of filepath.Clean over the elements of a path: empty elements
\* and "." are dropped, ".." removes the element before it, is dropped at the
\* root, and is kept where a relative path has nothing left to remove.
CleanSegments(segs, out, rooted) ==
    IF segs = <<>> THEN out
    ELSE LET seg == Head(segs)
             next == IF seg = <<>> \/ seg = << "." >> THEN out
                     ELSE IF seg = << ".", "." >>
                       THEN IF out # <<>> /\ out[Len(out)] # << ".", "." >>
                              THEN SubSeq(out, 1, Len(out) - 1)
                            ELSE IF rooted THEN out
                            ELSE Append(out, seg)
                     ELSE Append(out, seg)
         IN CleanSegments(Tail(segs), next, rooted)

RECURSIVE JoinSegments(_)
\* strings.Join(segs, "/")
JoinSegments(segs) ==
    IF segs = <<>> THEN <<>>
    ELSE IF Len(segs) = 1 THEN segs[1]
    ELSE segs[1] \o << "/" >> \o JoinSegments(Tail(segs))

\* The end of filepath.Clean: the root is put back before the elements
\* kept, and an empty result is ".".
Cleaned(rooted, body) ==
    IF rooted THEN << "/" >> \o body
    ELSE IF body = <<>> THEN << "." >>
    ELSE body

\* filepath.Clean
Clean(path) ==
    Cleaned(HasPrefix(path, << "/" >>),
            JoinSegments(CleanSegments(Split(path, "/"), <<>>,
                                       HasPrefix(path, << "/" >>))))

\* filepath.Join of two elements: empty elements are ignored, the rest is
\* joined by "/" and cleaned.
Join(a, b) ==
    IF a = <<>> /\ b = <<>> THEN <<>>
    ELSE IF a = <<>> THEN Clean(b)
    ELSE IF b = <<>> THEN Clean(a)
    ELSE Clean(a \o << "/" >> \o b)

\* The position of the last "/" of path, 0 if there is none.
LastSlash(path) ==
    IF \E k \in 1..Len(path) : path[k] = "/"
      THEN CHOOSE k \in 1..Len(path) :
              path[k] = "/" /\ \A j \in (k + 1)..Len(path) : path[j] # "/"
      ELSE 0

\* filepath.Dir: all but the last element of path, cleaned.
Dir(path) == Clean(SubSeq(path, 1, LastSlash(path)))

\* Lines 168-170: an empty path is named "index".
Named(urlPath) == IF urlPath = <<>> THEN << "index" >> ELSE urlPath

\* Lines 172-174: ".md" is appended unless the path ends in it.
WithMd(urlPath) ==
    IF HasSuffix(urlPath, << ".", "md" >>) THEN urlPath
                                           ELSE urlPath \o << ".", "md" >>

\* Lines 163-176: the error of url.Parse, or the path under baseDir.
OutputPathOfURL(parsedURL, baseDir) ==
    IF parsedURL.err
      THEN [err |-> TRUE, outputPath |-> <<>>]
      ELSE [err |-> FALSE,
            outputPath |-> Join(baseDir,
                                WithMd(Named(TrimPrefix(parsedURL.Path, << "/" >>))))]

\* One level of directories under baseDir, named after the host.
OutputPathUnderHost(rawURL, baseDir) ==
    IF Parse(rawURL).err
      THEN [err |-> TRUE, outputPath |-> <<>>]
      ELSE [err |-> FALSE,
            outputPath |-> Join(Join(baseDir, Parse(rawURL).Host),
                                OutputPathOfURL(Parse(rawURL), <<>>).outputPath)]

\* ".md" appended whatever the path ends in.
OutputPathAlwaysAppends(rawURL, baseDir) ==
    IF Parse(rawURL).err
      THEN [err |-> TRUE, outputPath |-> <<>>]
      ELSE [err |-> FALSE,
            outputPath |-> Join(baseDir,
                                Named(TrimPrefix(Parse(rawURL).Path, << "/" >>))
                                    \o << ".", "md" >>)]

\* Lines 162-176 of GetOutputPath: the path it resolves rawURL to under
\* baseDir, or the error of url.Parse.
OutputPath(rawURL, baseDir) == OutputPathOfURL(Parse(rawURL), baseDir)

----------------------------------------------------------------------------
\* ScrapeURL, GetOutputPath, SaveMarkdown: the steps of one item.

\* ScrapeURL(rawURL, selector) called for the idx-th identifier: the
\* "Scraping:" line, then FetchWithRetries.
ScrapeURL(caller, rawURL, idx) ==
    FetchWithRetries([Idle EXCEPT !.caller = caller, !.url = rawURL, !.idx = idx])

\* The item going on to GetOutputPath whether or not its extraction failed.
ExtractErrorIgnored(p, ok) ==
    /\ p.pc = "extract"
    /\ client.mock => ok = client.matches[p.url]
    /\ Does(p, [p EXCEPT !.pc = "path"])
    /\ UNCHANGED <<client, fs>>
    /\ UNCHANGED shared

\* ScrapeURL fetching the identifier again when its extraction failed.
ExtractRefetches(p, ok) ==
    /\ p.pc = "extract"
    /\ client.mock => ok = client.matches[p.url]
    /\ Does(p, IF ok THEN [p EXCEPT !.pc = "path"]
                     ELSE ScrapeURL(p.caller, p.url, p.idx))
    /\ UNCHANGED <<client, fs>>
    /\ UNCHANGED shared

\* Lines 152-157: io.ReadAll and ExtractContent; ok = both succeeded.
Extract(p, ok) ==
    /\ p.pc = "extract"
    /\ client.mock => ok = client.matches[p.url]
    /\ Does(p, IF ok THEN [p EXCEPT !.pc = "path"] ELSE ItemFailed(p, "extract"))
    /\ UNCHANGED <<client, fs>>
    /\ UNCHANGED shared

\* The characters of the identifiers the batch runs use.
Chars(u) ==
    CASE u = "https://example.com/1" ->
            << "https:", "/", "/", "example.com", "/", "1" >>
      [] u = "https://example.com/2" ->
            << "https:", "/", "/", "example.com", "/", "2" >>
      [] u = "https://example.com/1.md" ->
            << "https:", "/", "/", "example.com", "/", "1", ".", "md" >>
      [] u = "https://example.net/1?page=2" ->
            << "https:", "/", "/", "example.net", "/", "1", "?", "page=2" >>

\* The output argument of ScrapeURLs: "/tmp/test".
Output == << "/", "tmp", "/", "test" >>

\* The markdown ScrapeURL returns for u: the conversion of the body served.
MarkdownOf(u) == [markdown |-> u]

\* The clean path `path` and the directories above it: what precedes each
\* of its separators, the root for a rooted path and "." for a relative one.
Ancestors(path) ==
    {path}
      \cup {SubSeq(path, 1, k - 1) : k \in {j \in 2..Len(path) : path[j] = "/"}}
      \cup {IF HasPrefix(path, << "/" >>) THEN << "/" >> ELSE << "." >>}

\* os.MkdirAll(path) on disk f succeeds: no file is in the way. A directory
\* that exists already is not an error.
MkdirAllOk(f, path) ==
    /\ f.refused # "MkdirAll"
    /\ \A a \in Ancestors(path) : a \notin DOMAIN f.files

\* The disk after a successful MkdirAll(path).
MkdirAll(f, path) ==
    [f EXCEPT !.directories = @ \cup Ancestors(path)]

\* os.Create(name) on disk f succeeds: the directory is there and name is
\* not a directory.
CreateOk(f, name) ==
    /\ f.refused # "Create"
    /\ Dir(name) \in f.directories
    /\ name \notin f.directories

\* The file name on disk f with the chunks `content`.
WithFile(f, name, content) ==
    [q \in DOMAIN f.files \cup {name} |-> IF q = name THEN content ELSE f.files[q]]

\* os.Create opening the file without truncating it.
CreateKeepsContent(f, name) ==
    [f EXCEPT !.files = WithFile(f, name, IF name \in DOMAIN f.files
                                           THEN f.files[name] ELSE <<>>),
              !.createdFiles = @ (+) SetToBag({name})]

\* The disk after a successful Create(name): the file exists and is empty.
Create(f, name) ==
    [f EXCEPT !.files = WithFile(f, name, <<>>),
              !.createdFiles = @ (+) SetToBag({name})]

\* The disk after io.WriteString(file, content) and the deferred Close.
WriteString(f, name, content) ==
    [f EXCEPT !.files = WithFile(f, name, f.files[name] \o << content >>)]

\* Lines 178-183: MkdirAll of the directory of the path r resolved, on disk f.
MkdirAllFor(f, r) ==
    IF r.err \/ ~MkdirAllOk(f, Dir(r.outputPath))
      THEN [err |-> TRUE, outputPath |-> <<>>, fs |-> f]
      ELSE [err |-> FALSE, outputPath |-> r.outputPath,
            fs |-> MkdirAll(f, Dir(r.outputPath))]

\* GetOutputPath(rawURL, baseDir) on disk f: the error or the path it
\* returns, and the disk after its MkdirAll.
GetOutputPathOn(f, rawURL, baseDir) ==
    MkdirAllFor(f, OutputPath(rawURL, baseDir))

\* The identifiers the batch runs use, and what lines 162-176 of
\* GetOutputPath resolve each of them to under the output directory.
BatchIdentifiers ==
    {"https://example.com/1", "https://example.com/2", "https://example.com/1.md",
     "https://example.net/1?page=2"}
OutputPaths == [u \in BatchIdentifiers |-> OutputPath(Chars(u), Output)]

\* What GetOutputPath(rawURL, output) returns for the identifier u of a
\* batch on the disk as it is.
Resolved(u) == MkdirAllFor(fs, OutputPaths[u])

\* GetOutputPath as its caller sees it; ok = url.Parse and MkdirAll succeeded.
GetOutputPath(p, ok) ==
    /\ p.pc = "path"
    /\ \E r \in IF fs.observed THEN {Resolved(p.url)}
                                ELSE {[err |-> ~ok, fs |-> fs]} :
          /\ ok = ~r.err
          /\ fs' = r.fs
    /\ Does(p, IF ok THEN [p EXCEPT !.pc = "save"] ELSE ItemFailed(p, "path"))
    /\ UNCHANGED client
    /\ UNCHANGED shared

\* The local outputPath of the goroutine that is about to save u: the path
\* GetOutputPath returned.
OutputPathOf(u) == OutputPaths[u].outputPath

\* The disk after SaveMarkdown(content, filePath): nothing has changed when
\* Create fails; when it succeeds the file is there, and holds the content
\* unless the write fails.
Saved(f, content, filePath) ==
    IF ~CreateOk(f, filePath) THEN f
    ELSE IF f.refused = "Write" THEN Create(f, filePath)
    ELSE WriteString(Create(f, filePath), filePath, content)

\* SaveMarkdown returns nil on disk f.
SaveMarkdownOk(f, filePath) == CreateOk(f, filePath) /\ f.refused # "Write"

\* SaveMarkdown as its caller sees it; ok = Create and WriteString succeeded.
SaveMarkdown(p, ok) ==
    /\ p.pc = "save"
    /\ \E filePath \in {IF fs.observed THEN OutputPathOf(p.url) ELSE <<>>} :
          /\ fs.observed => ok = SaveMarkdownOk(fs, filePath)
          /\ fs' = IF fs.observed THEN Saved(fs, MarkdownOf(p.url), filePath)
                                  ELSE fs
    /\ Does(p, IF ok THEN ItemSaved(p) ELSE ItemFailed(p, "save"))
    /\ UNCHANGED client
    /\ UNCHANGED shared

----------------------------------------------------------------------------
\* The logger's lines.

SavedLine(r) == [line |-> "Saved", idx |-> r.idx]
ErrorScrapingLine(r) == [line |-> "Error scraping", idx |-> r.idx]
ErrorPathLine(r) == [line |-> "Error determining output path", idx |-> r.idx]
ErrorSavingLine(r) == [line |-> "Error saving", idx |-> r.idx]
StartingLine(n, m) == [line |-> "Starting", workers |-> n, urls |-> m]
CompletedLine(s, e) == [line |-> "Completed", successful |-> s, errors |-> e]

\* logger.Printf of one line.
Printf(l) == messages' = messages (+) SetToBag({l})

\* errorCount++ left out of the failure branch.
TallySuccessesOnly(r) ==
    /\ successCount' = IF r.Success THEN successCount + 1 ELSE successCount
    /\ errorCount' = errorCount

\* successCount++ or errorCount++ for a finished item (lines 218, 225, 231,
\* 236 and 282-288).
Tally(r) ==
    /\ successCount' = IF r.Success THEN successCount + 1 ELSE successCount
    /\ errorCount' = IF r.Success THEN errorCount ELSE errorCount + 1

\* A receive that leaves the element in the buffer.
RecvLeavesElement(ch) == ch

\* The buffer of a channel after a receive took its first element.
Recv(ch) == Tail(ch)

\* A worker that returns without wg.Done().
WgDoneForgotten(n) == n

\* The WaitGroup counter after wg.Done().
WgDone(n) == n - 1

----------------------------------------------------------------------------
\* ScrapeURLs and scrapeSequential

Min(a, b) == IF a < b THEN a ELSE b

\* numWorkers without the clamp to len(urls).
NumWorkersUnclamped == config.Workers

\* scrapeConcurrent's numWorkers, lines 244-247.
NumWorkers ==
    IF config.Workers > Len(urls) THEN Len(urls) ELSE config.Workers

\* Workers < 1 instead of Workers <= 1.
SequentialBelowOne == config.Workers < 1

\* Line 204: which driver runs the batch.
Sequential == config.Workers <= 1

\* close(jobs) one iteration early: the last Job is never sent.
AfterSendClosesEarly(k) == IF k + 1 < Len(urls) THEN "send" ELSE "close"

\* The position after the job-sending loop has sent k jobs.
AfterSend(k) == IF k < Len(urls) THEN "send" ELSE "close"

\* The position after the worker-starting loop has run k times.
AfterSpawn(k) == IF k < NumWorkers THEN "spawn" ELSE AfterSend(0)

\* ScrapeURLs up to the first loop of the driver it picks.
ScrapeURLs ==
    /\ mainPc = "ScrapeURLs"
    /\ IF Sequential
         THEN /\ mainPc' = "range"
              /\ i' = 1
              /\ UNCHANGED <<numWorkers, messages>>
         ELSE /\ numWorkers' = NumWorkers
              /\ Printf(StartingLine(NumWorkers, Len(urls)))
              /\ i' = 0
              /\ mainPc' = AfterSpawn(0)
    /\ successCount' = 0
    /\ errorCount' = 0
    /\ UNCHANGED <<config, client, fs, urls, main, workers, wg, jobs, jobsClosed, results,
                   resultsClosed, waiterPc, ret>>

\* scrapeSequential's loop head: the next identifier enters ScrapeURL, or
\* the loop is over, the summary is logged and nil is returned.
SeqRange ==
    /\ mainPc = "range"
    /\ main.pc = "off"
    /\ IF i <= Len(urls)
         THEN /\ main' = ScrapeURL("scrapeSequential", urls[i], i)
              /\ UNCHANGED <<mainPc, messages, ret>>
         ELSE /\ Printf(CompletedLine(successCount, errorCount))
              /\ ret' = "nil"
              /\ mainPc' = "done"
              /\ UNCHANGED main
    /\ UNCHANGED <<config, client, fs, urls, workers, i, numWorkers, wg, jobs, jobsClosed,
                   results, resultsClosed, waiterPc, successCount, errorCount>>

\* scrapeSequential logging "Error scraping" for every failure.
SeqLineOfCollector(p) ==
    IF p.result.Success THEN SavedLine(p.result) ELSE ErrorScrapingLine(p.result)

\* The line scrapeSequential logs for a finished item: lines 217, 224, 230, 235.
SeqLine(p) ==
    IF p.result.Success THEN SavedLine(p.result)
    ELSE IF p.stage = "path" THEN ErrorPathLine(p.result)
    ELSE IF p.stage = "save" THEN ErrorSavingLine(p.result)
    ELSE ErrorScrapingLine(p.result)

\* scrapeSequential returning the error of the first item that fails.
SeqReportReturnsError ==
    /\ mainPc = "range"
    /\ main.pc = "result"
    /\ LET r == main.result
       IN /\ Printf(SeqLine(main))
          /\ Tally(r)
          /\ IF r.Success
               THEN i' = i + 1 /\ UNCHANGED <<mainPc, ret>>
               ELSE mainPc' = "done" /\ ret' = "err" /\ UNCHANGED i
    /\ main' = Idle
    /\ UNCHANGED <<config, client, fs, urls, workers, numWorkers, wg, jobs, jobsClosed,
                   results, resultsClosed, waiterPc>>

\* scrapeSequential after an item: its log line, its count, the next index.
SeqReport ==
    /\ mainPc = "range"
    /\ main.pc = "result"
    /\ LET r == main.result
       IN /\ Printf(SeqLine(main))
          /\ Tally(r)
    /\ i' = i + 1
    /\ main' = Idle
    /\ UNCHANGED <<config, client, fs, urls, workers, mainPc, numWorkers, wg, jobs,
                   jobsClosed, results, resultsClosed, waiterPc, ret>>

----------------------------------------------------------------------------
\* scrapeConcurrent

\* The frame of a worker at its `for job := range jobs`.
AtRange == [Idle EXCEPT !.pc = "range", !.caller = "worker"]

\* The frame of a worker that has returned.
Exited == [Idle EXCEPT !.pc = "exit", !.caller = "worker"]

\* go s.worker(i, ...) without the wg.Add(1) before it.
SpawnWithoutAdd ==
    /\ mainPc = "spawn"
    /\ wg' = wg
    /\ workers' = workers (+) SetToBag({AtRange})
    /\ i' = IF i + 1 < numWorkers THEN i + 1 ELSE 0
    /\ mainPc' = AfterSpawn(i + 1)
    /\ UNCHANGED <<config, client, fs, urls, main, numWorkers, jobs, jobsClosed, results,
                   resultsClosed, waiterPc, successCount, errorCount, messages, ret>>

\* Lines 257-260: wg.Add(1) and go s.worker(i, ...).
Spawn ==
    /\ mainPc = "spawn"
    /\ wg' = wg + 1
    /\ workers' = workers (+) SetToBag({AtRange})
    /\ i' = IF i + 1 < numWorkers THEN i + 1 ELSE 0
    /\ mainPc' = AfterSpawn(i + 1)
    /\ UNCHANGED <<config, client, fs, urls, main, numWorkers, jobs, jobsClosed, results,
                   resultsClosed, waiterPc, successCount, errorCount, messages, ret>>

\* Lines 263-269: one send on the jobs channel, whose capacity is len(urls).
SendJob ==
    /\ mainPc = "send"
    /\ Len(jobs) < Len(urls)
    /\ jobs' = Append(jobs, [URL |-> urls[i + 1], idx |-> i + 1])
    /\ i' = i + 1
    /\ mainPc' = AfterSend(i + 1)
    /\ UNCHANGED <<config, client, fs, urls, main, workers, numWorkers, wg, jobsClosed,
                   results, resultsClosed, waiterPc, successCount, errorCount,
                   messages, ret>>

\* Line 270.
CloseJobs ==
    /\ mainPc = "close"
    /\ jobsClosed' = TRUE
    /\ mainPc' = "go"
    /\ UNCHANGED <<config, client, fs, urls, main, workers, i, numWorkers, wg, jobs, results,
                   resultsClosed, waiterPc, successCount, errorCount, messages, ret>>

\* Line 273: the goroutine that waits for the workers is started.
GoWaiter ==
    /\ mainPc = "go"
    /\ waiterPc' = "wait"
    /\ mainPc' = "collect"
    /\ UNCHANGED <<config, client, fs, urls, main, workers, i, numWorkers, wg, jobs,
                   jobsClosed, results, resultsClosed, successCount, errorCount,
                   messages, ret>>

\* close(results) without wg.Wait().
WaiterClosesAtOnce ==
    /\ waiterPc = "wait"
    /\ resultsClosed' = TRUE
    /\ waiterPc' = "done"
    /\ UNCHANGED <<config, client, fs, urls, main, workers, mainPc, i, numWorkers, wg, jobs,
                   jobsClosed, results, successCount, errorCount, messages, ret>>

\* Lines 274-275: wg.Wait() returns when the counter is zero; close(results).
Waiter ==
    /\ waiterPc = "wait"
    /\ wg = 0
    /\ resultsClosed' = TRUE
    /\ waiterPc' = "done"
    /\ UNCHANGED <<config, client, fs, urls, main, workers, mainPc, i, numWorkers, wg, jobs,
                   jobsClosed, results, successCount, errorCount, messages, ret>>

\* The line the collector logs for a Result.
CollectLine(r) == IF r.Success THEN SavedLine(r) ELSE ErrorScrapingLine(r)

\* A collector loop that ends at the first failed Result.
CollectBreaksOnError ==
    /\ mainPc = "collect"
    /\ IF results # <<>>
         THEN LET r == Head(results)
              IN /\ results' = Recv(results)
                 /\ Printf(CollectLine(r))
                 /\ Tally(r)
                 /\ mainPc' = IF r.Success THEN mainPc ELSE "done"
                 /\ ret' = IF r.Success THEN ret ELSE "nil"
         ELSE /\ resultsClosed
              /\ Printf(CompletedLine(successCount, errorCount))
              /\ ret' = "nil"
              /\ mainPc' = "done"
              /\ UNCHANGED <<results, successCount, errorCount>>
    /\ UNCHANGED <<config, client, fs, urls, main, workers, i, numWorkers, wg,
                   jobs, jobsClosed, resultsClosed, waiterPc>>

\* Lines 281-292: one receive from results, or, once results is closed and
\* drained, the summary and the return.
Collect ==
    /\ mainPc = "collect"
    /\ IF results # <<>>
         THEN LET r == Head(results)
              IN /\ results' = Recv(results)
                 /\ Printf(CollectLine(r))
                 /\ Tally(r)
                 /\ UNCHANGED <<mainPc, ret>>
         ELSE /\ resultsClosed
              /\ Printf(CompletedLine(successCount, errorCount))
              /\ ret' = "nil"
              /\ mainPc' = "done"
              /\ UNCHANGED <<results, successCount, errorCount>>
    /\ UNCHANGED <<config, client, fs, urls, main, workers, i, numWorkers, wg, jobs,
                   jobsClosed, resultsClosed, waiterPc>>

\* A worker that receives no job while another worker sleeps.
WorkerRangeWaitsForSleepers(f) ==
    /\ f.pc = "range"
    /\ \A g \in Running : g.pc # "sleep"
    /\ IF jobs # <<>>
         THEN /\ WorkerDoes(f, ScrapeURL("worker", Head(jobs).URL, Head(jobs).idx))
              /\ jobs' = Recv(jobs)
              /\ UNCHANGED wg
         ELSE /\ jobsClosed
              /\ WorkerDoes(f, Exited)
              /\ wg' = WgDone(wg)
              /\ UNCHANGED jobs
    /\ UNCHANGED <<config, client, fs, urls, mainPc, i, numWorkers, jobsClosed, results,
                   resultsClosed, waiterPc, successCount, errorCount, messages, ret>>

\* worker, line 298: the next job is received, or jobs is closed and drained
\* and the worker returns through its deferred wg.Done().
WorkerRange(f) ==
    /\ f.pc = "range"
    /\ IF jobs # <<>>
         THEN /\ WorkerDoes(f, ScrapeURL("worker", Head(jobs).URL, Head(jobs).idx))
              /\ jobs' = Recv(jobs)
              /\ UNCHANGED wg
         ELSE /\ jobsClosed
              /\ WorkerDoes(f, Exited)
              /\ wg' = WgDone(wg)
              /\ UNCHANGED jobs
    /\ UNCHANGED <<config, client, fs, urls, mainPc, i, numWorkers, jobsClosed, results,
                   resultsClosed, waiterPc, successCount, errorCount, messages, ret>>

\* worker, `results <- result`: the send blocks while the buffer is full and
\* panics on a closed channel.
WorkerSend(f) ==
    /\ f.pc = "result"
    /\ IF resultsClosed
         THEN /\ WorkerDoes(f, [f EXCEPT !.pc = "panic"])
              /\ UNCHANGED results
         ELSE /\ Len(results) < Len(urls)
              /\ results' = Append(results, f.result)
              /\ WorkerDoes(f, AtRange)
    /\ UNCHANGED <<config, client, fs, urls, mainPc, i, numWorkers, wg, jobs, jobsClosed,
                   resultsClosed, waiterPc, successCount, errorCount, messages, ret>>

----------------------------------------------------------------------------
\* A batch run: ScrapeURLs on a service built with any Config.

\* The lists of identifiers: <<>>, <<u1>>, <<u1, u2>>, <<u1, u2, u1>>, ...
\* up to MaxUrls long, so that the longer ones hold duplicates.
UrlAt(k) == IF k % 2 = 1 THEN "https://example.com/1" ELSE "https://example.com/2"
Lists == {[k \in 1..n |-> UrlAt(k)] : n \in 0..MaxUrls}

Init ==
    /\ config \in [MaxRetries : 0..BatchMaxRetries, Workers : (-1)..MaxWorkers]
    /\ client = AnyClient
    /\ fs = AnyFileSystem
    /\ urls \in Lists
    /\ main = Idle
    /\ workers = EmptyBag
    /\ mainPc = "ScrapeURLs"
    /\ i = 0
    /\ numWorkers = 0
    /\ wg = 0
    /\ jobs = <<>>
    /\ jobsClosed = FALSE
    /\ results = <<>>
    /\ resultsClosed = FALSE
    /\ waiterPc = "none"
    /\ successCount = 0
    /\ errorCount = 0
    /\ messages = EmptyBag
    /\ ret = "none"

\* One step of the item the calling goroutine is processing.
MainItemStep ==
    \/ Sleep(main)
    \/ \E r \in BatchResponses : Get(main, r)
    \/ \E ok \in BOOLEAN : Extract(main, ok)
    \/ \E ok \in BOOLEAN : GetOutputPath(main, ok)
    \/ \E ok \in BOOLEAN : SaveMarkdown(main, ok)

MainStep ==
    \/ ScrapeURLs
    \/ SeqRange
    \/ SeqReport
    \/ MainItemStep
    \/ Spawn
    \/ SendJob
    \/ CloseJobs
    \/ GoWaiter
    \/ Collect

\* One step of the worker whose frame is f.
WorkerStep(f) ==
    \/ WorkerRange(f)
    \/ Sleep(f)
    \/ \E r \in BatchResponses : Get(f, r)
    \/ \E ok \in BOOLEAN : Extract(f, ok)
    \/ \E ok \in BOOLEAN : GetOutputPath(f, ok)
    \/ \E ok \in BOOLEAN : SaveMarkdown(f, ok)
    \/ WorkerSend(f)

WorkersStep == \E f \in Running : WorkerStep(f)

Next ==
    \/ MainStep
    \/ WorkersStep
    \/ Waiter

Spec == Init /\ [][Next]_vars

\* A batch in which sleeper.Sleep does not return in the workers that retry
\* the identifier https://example.com/1: a worker that has reached its
\* backoff sleep for it stays there, and everything else runs as in Spec.
Stalled(f) ==
    f.caller = "worker" /\ f.pc = "sleep" /\ f.url = "https://example.com/1"

StallNext == Next /\ ~(\E f \in Running : Stalled(f) /\ Sleep(f))

StallSpec == Init /\ [][StallNext]_vars

\* The Go scheduler runs every goroutine that can take a step.
FairSpec ==
    /\ Spec
    /\ WF_vars(MainStep)
    /\ WF_vars(WorkersStep)
    /\ WF_vars(Waiter)

----------------------------------------------------------------------------
\* A batch run against a MockHTTPClient and a disk: what every identifier is
\* answered, and the call the disk refuses, are fixed before the run.

\* What the client is set up to serve for one identifier: SetError, or
\* SetResponse with a status code and a body.
Served ==
    {[resp |-> TransportError, matches |-> FALSE],
     [resp |-> Response(404), matches |-> FALSE],
     [resp |-> Response(500), matches |-> FALSE],
     [resp |-> Response(200), matches |-> FALSE],
     [resp |-> Response(200), matches |-> TRUE]}

Refusals == {"none", "MkdirAll", "Create", "Write"}

\* The lists of identifiers: the first identifier alternating with itself,
\* with one that resolves elsewhere, or with a different one that resolves
\* to the same path.
DiskUrlAt(second, k) == IF k % 2 = 1 THEN "https://example.com/1" ELSE second
DiskLists ==
    {[k \in 1..n |-> DiskUrlAt(second, k)] :
        second \in BatchIdentifiers, n \in 0..DiskMaxUrls}

\* The identifiers of a list.
Range(list) == {list[k] : k \in 1..Len(list)}

DiskInit ==
    /\ config \in [MaxRetries : {BatchMaxRetries}, Workers : 1..DiskMaxWorkers]
    /\ urls \in DiskLists
    /\ \E served \in [Range(urls) -> Served] :
          client = MockHTTPClient([u \in Range(urls) |-> served[u].resp],
                                  [u \in Range(urls) |-> served[u].matches])
    /\ \E refused \in Refusals : fs = Disk(refused)
    /\ main = Idle
    /\ workers = EmptyBag
    /\ mainPc = "ScrapeURLs"
    /\ i = 0
    /\ numWorkers = 0
    /\ wg = 0
    /\ jobs = <<>>
    /\ jobsClosed = FALSE
    /\ results = <<>>
    /\ resultsClosed = FALSE
    /\ waiterPc = "none"
    /\ successCount = 0
    /\ errorCount = 0
    /\ messages = EmptyBag
    /\ ret = "none"

DiskSpec == DiskInit /\ [][Next]_vars

----------------------------------------------------------------------------
\* Properties of a batch run, checked under Spec and FairSpec.

Items == 1..Len(urls)

\* The number of copies in bag B of the elements of S.
CountIn(B, S) == BagCardinality([e \in S \cap BagToSet(B) |-> B[e]])

\* The number of result lines ("Saved", or one of the three error lines)
\* logged for the k-th identifier.
LineCount(k) ==
    CountIn(messages, {[line |-> t, idx |-> k] : t \in {"Saved", "Error scraping",
                          "Error determining output path", "Error saving"}})

\* The number of "Completed" lines logged.
CompletedCount == CountIn(messages, {l \in BagToSet(messages) : l.line = "Completed"})

\* The frame f is processing the k-th identifier, or holds its Result.
Holds(f, k) ==
    \/ f.pc \in {"get", "sleep", "extract", "path", "save"} /\ f.idx = k
    \/ f.pc \in {"result", "panic"} /\ f.result.idx = k

\* The number of workers that are processing an identifier.
Busy == CountIn(workers, {f \in Running : \E k \in Items : Holds(f, k)})

\* The number of places the k-th Job or its Result is at: the jobs buffer,
\* a worker, the results buffer, the collector's log.
Places(k) ==
    Cardinality({j \in 1..Len(jobs) : jobs[j].idx = k})
    + CountIn(workers, {f \in Running : Holds(f, k)})
    + Cardinality({j \in 1..Len(results) : results[j].idx = k})
    + LineCount(k)

\* scrapeConcurrent has sent the k-th Job.
Enqueued(k) ==
    \/ mainPc = "send" /\ k <= i
    \/ mainPc \in {"close", "go", "collect", "done"}

\* C1: the counts of the "Completed" line add up to the number of
\* identifiers, as do successCount and errorCount once ScrapeURLs has
\* returned; before that they never exceed it.
C1_CountsAddUp ==
    /\ \A l \in BagToSet(messages) :
          l.line = "Completed" => l.successful + l.errors = Len(urls)
    /\ successCount + errorCount <= Len(urls)
    /\ mainPc = "done" => successCount + errorCount = Len(urls)

\* A concurrent run over three identifiers, one a duplicate, has ended with
\* two successes and one error.
C1_Witness ==
    /\ mainPc = "done"
    /\ config.Workers > 1
    /\ Len(urls) = 3
    /\ urls[1] = urls[3]
    /\ [line |-> "Completed", successful |-> 2, errors |-> 1] \in BagToSet(messages)

\* C2: in concurrent mode every Job that has been sent is at exactly one
\* place (waiting in jobs, held by one worker, waiting as one Result in
\* results, or received and logged once by the collector) and a Job not yet
\* sent is nowhere: none is dropped, none is held by two workers, none
\* yields two Results.
C2_OneResultPerJob ==
    config.Workers > 1 =>
        \A k \in Items : Places(k) = IF Enqueued(k) THEN 1 ELSE 0

\* Two workers process two identifiers while a third Result waits in results.
C2_Witness ==
    /\ config.Workers > 1
    /\ Cardinality({k \in Items : \E f \in Running : Holds(f, k)}) = 2
    /\ Len(results) = 1

\* C7: the "Completed" line is logged only as ScrapeURLs ends; when it has
\* ended it has returned nil, logged "Completed" once, and logged exactly one
\* result line for every identifier, whatever failed.
C7_BatchCompletes ==
    /\ CompletedCount > 0 => mainPc = "done"
    /\ ret # "none" => mainPc = "done"
    /\ mainPc = "done" =>
          /\ ret = "nil"
          /\ CompletedCount = 1
          /\ \A k \in Items : LineCount(k) = 1

\* A sequential run whose first identifier failed at path resolution saved
\* the second and ended.
C7_Witness ==
    /\ mainPc = "done"
    /\ config.Workers <= 1
    /\ Len(urls) >= 2
    /\ [line |-> "Error determining output path", idx |-> 1] \in BagToSet(messages)
    /\ [line |-> "Saved", idx |-> 2] \in BagToSet(messages)

\* ScrapeURLs has returned; in concurrent mode both channels are closed and
\* empty, every worker that was started has returned and the waiting
\* goroutine has ended.
Terminated ==
    /\ mainPc = "done"
    /\ CompletedCount = 1
    /\ config.Workers > 1 =>
          /\ jobsClosed /\ jobs = <<>>
          /\ resultsClosed /\ results = <<>>
          /\ waiterPc = "done"
          /\ wg = 0
          /\ \A f \in Running : f.pc = "exit"
          /\ BagCardinality(workers) = Min(config.Workers, Len(urls))

\* C8: under fair scheduling every run terminates and stays terminated.
C8_Terminates == <>[]Terminated

\* A concurrent run with three workers has terminated.
C8_Witness ==
    /\ Terminated
    /\ config.Workers > 1
    /\ BagCardinality(workers) = 3

\* C9: with Workers <= 1 there is no worker, no waiting goroutine and nothing
\* in a channel; the caller processes urls[i] and nothing else, and at that
\* time one result line has been logged for every identifier before i and
\* none for i or a later one.
C9_SequentialInOrder ==
    config.Workers <= 1 =>
        /\ workers = EmptyBag
        /\ waiterPc = "none"
        /\ jobs = <<>> /\ results = <<>>
        /\ main.pc \in {"get", "sleep", "extract", "path", "save"} =>
              i \in Items /\ main.idx = i /\ main.url = urls[i]
        /\ main.pc = "result" => i \in Items /\ main.result.idx = i
        /\ mainPc = "range" =>
              \A k \in Items : LineCount(k) = IF k < i THEN 1 ELSE 0

\* Workers = -1: the second identifier is about to be fetched again, after
\* the first one's result line.
C9_Witness ==
    /\ config.Workers = -1
    /\ main.pc = "get"
    /\ main.attempt = 1
    /\ main.idx = 2
    /\ LineCount(1) = 1

\* C10: with Workers > 1 never more than min(Workers, len(urls)) workers
\* have been started, exactly that many once the starting loop is over, that
\* is the number the "Starting" line names, and never more than that many
\* identifiers are being processed.
C10_WorkerCount ==
    config.Workers > 1 =>
        /\ BagCardinality(workers) <= Min(config.Workers, Len(urls))
        /\ Busy <= Min(config.Workers, Len(urls))
        /\ mainPc \in {"send", "close", "go", "collect", "done"} =>
              /\ BagCardinality(workers) = Min(config.Workers, Len(urls))
              /\ numWorkers = Min(config.Workers, Len(urls))
              /\ StartingLine(Min(config.Workers, Len(urls)), Len(urls))
                    \in BagToSet(messages)

\* Two workers, both busy, for three identifiers.
C10_Witness ==
    /\ config.Workers = 2
    /\ Len(urls) = 3
    /\ BagCardinality(workers) = 2
    /\ Busy = 2

\* The indices of the Jobs waiting in the jobs buffer, in order.
Queued == [j \in 1..Len(jobs) |-> jobs[j].idx]

\* The number of Jobs some worker has dequeued so far.
Dequeued == (IF mainPc = "send" THEN i ELSE Len(urls)) - Len(jobs)

\* C11 as stated: no worker has dequeued a Job while a Job of the batch is
\* still to be enqueued.
C11_NoDequeueBeforeAllEnqueued ==
    (config.Workers > 1 /\ mainPc \in {"spawn", "send"}) =>
        /\ Dequeued = 0
        /\ Busy = 0

\* C11 amended: every worker is started before the first Job is sent; the
\* sending loop never finds the buffer full, sends the Jobs in the order of
\* urls, and the buffer holds the last Len(jobs) of the Jobs sent so far,
\* whatever the workers have dequeued meanwhile; jobs is closed only after
\* all Len(urls) Jobs were sent and nothing is sent after that.
C11_JobsSentInOrder ==
    config.Workers > 1 =>
        /\ mainPc = "spawn" => jobs = <<>> /\ ~jobsClosed
        /\ mainPc = "send" =>
              /\ BagCardinality(workers) = numWorkers
              /\ i < Len(urls)
              /\ Len(jobs) <= i
              /\ Queued = [j \in 1..Len(jobs) |-> i - Len(jobs) + j]
              /\ \A j \in 1..Len(jobs) : jobs[j].URL = urls[jobs[j].idx]
              /\ ~jobsClosed
        /\ mainPc \in {"close", "go", "collect", "done"} =>
              /\ i = Len(urls)
              /\ Queued = [j \in 1..Len(jobs) |-> Len(urls) - Len(jobs) + j]
        /\ jobsClosed <=> mainPc \in {"go", "collect", "done"}

\* A worker has dequeued the first Job and is processing it while the second
\* and third are still to be sent.
C11_Witness ==
    /\ config.Workers > 1
    /\ Len(urls) = 3
    /\ mainPc = "send"
    /\ i = 1
    /\ jobs = <<>>
    /\ Busy = 1

\* C12 as stated: the collector has received and counted no Result while a
\* worker is still running.
C12_NothingCountedWhileWorkersRun ==
    (config.Workers > 1 /\ successCount + errorCount > 0) =>
        \A f \in Running : f.pc = "exit"

\* The workers have all returned: the WaitGroup counter is back at zero and
\* every frame is past the deferred wg.Done().
WorkersDone ==
    /\ wg = 0
    /\ BagCardinality(workers) = numWorkers
    /\ \A f \in Running : f.pc = "exit"

\* C12 amended: results is closed only after every worker has returned, so
\* no worker ever sends on the closed channel, and the collector loop ends
\* (the "Completed" line, the return) only after that, with results drained;
\* while workers are running the collector may already have received and
\* counted Results.
C12_CollectorEndsAfterWorkers ==
    config.Workers > 1 =>
        /\ resultsClosed => WorkersDone /\ waiterPc = "done"
        /\ \A f \in Running : f.pc # "panic"
        /\ mainPc = "done" => resultsClosed /\ results = <<>>
        /\ CompletedCount > 0 => WorkersDone

\* The collector has counted one Result while a worker is still processing
\* an identifier and results is still open.
C12_Witness ==
    /\ config.Workers > 1
    /\ mainPc = "collect"
    /\ successCount + errorCount = 1
    /\ Busy = 1
    /\ ~resultsClosed

----------------------------------------------------------------------------
\* Properties of a batch run against the mock client and the disk, checked
\* under DiskSpec.

\* The outcome fixed for identifier u before the run: it is served a 2xx
\* answer whose body the selector matches and the disk refuses nothing.
FixedSuccess(u) ==
    /\ ~client.responses[u].err
    /\ client.responses[u].StatusCode \in 200..299
    /\ client.matches[u]
    /\ fs.refused = "none"

\* The places of urls whose identifier is fixed to succeed.
FixedSuccesses == {k \in Items : FixedSuccess(urls[k])}

\* C13: whatever the interleaving of the workers and the order in which the
\* Results arrive, when scrapeConcurrent has returned successCount is the
\* number of identifiers whose fixed outcome is a success and errorCount the
\* number of the others, and these are the counts of the "Completed" line.
C13_CountsFixedByOutcomes ==
    (config.Workers > 1 /\ mainPc = "done") =>
        /\ successCount = Cardinality(FixedSuccesses)
        /\ errorCount = Len(urls) - Cardinality(FixedSuccesses)
        /\ CompletedLine(Cardinality(FixedSuccesses),
                         Len(urls) - Cardinality(FixedSuccesses))
              \in BagToSet(messages)

\* Two workers; the Result of the second identifier, a failure, waits in
\* results ahead of the Result of the first, a success.
C13_Witness ==
    /\ config.Workers > 1
    /\ Len(results) = 2
    /\ results[1].idx = 2 /\ ~results[1].Success
    /\ results[2].idx = 1 /\ results[2].Success

\* The number of successful Create calls for the file `name`.
Creations(name) == CopiesIn(name, fs.createdFiles)

\* The places of urls whose identifier resolves to the file `name`.
ResolvingTo(name) == {k \in Items : OutputPathOf(urls[k]) = name}

\* C14 as stated: distinct identifiers resolve to distinct paths, so that in
\* a concurrent batch of distinct identifiers no file is created twice.
C14_DistinctIdentifiersDisjointPaths ==
    (/\ fs.observed
     /\ config.Workers > 1
     /\ \A j, k \in Items : j # k => urls[j] # urls[k]) =>
        \A name \in BagToSet(fs.createdFiles) : Creations(name) <= 1

\* C14 amended: identifiers resolve to the same path when their URI paths
\* give the same name: /1, /1.md and /1 on another host with a query all
\* resolve to /tmp/test/1.md, /2 to /tmp/test/2.md. A file is created only
\* for an identifier that resolves to it and at most once for each place of
\* the list that does, so identifiers that resolve to different paths are
\* written to different files, and only identifiers that resolve to the
\* same path (or one listed twice) have the same file created twice.
C14_SameFileOnlyForSamePath ==
    fs.observed =>
        /\ \A name \in BagToSet(fs.createdFiles) :
              Creations(name) <= Cardinality(ResolvingTo(name))
        /\ \A u \in {"https://example.com/1", "https://example.com/1.md",
                      "https://example.net/1?page=2"} :
              OutputPathOf(u) = << "/", "tmp", "/", "test", "/", "1", ".", "md" >>
        /\ OutputPathOf("https://example.com/2")
              = << "/", "tmp", "/", "test", "/", "2", ".", "md" >>

\* Two workers have each created /tmp/test/1.md, one for /1 and one for
\* /1.md, and both Results are successes.
C14_Witness ==
    /\ config.Workers > 1
    /\ urls = << "https://example.com/1", "https://example.com/1.md" >>
    /\ Creations(<< "/", "tmp", "/", "test", "/", "1", ".", "md" >>) = 2
    /\ Len(results) = 2
    /\ results[1].Success /\ results[2].Success

\* The k-th identifier was reported as a failure, as a success.
Failed(k) ==
    \E t \in {"Error scraping", "Error determining output path", "Error saving"} :
        [line |-> t, idx |-> k] \in BagToSet(messages)
Succeeded(k) == [line |-> "Saved", idx |-> k] \in BagToSet(messages)

\* No two places of urls resolve to the same path.
DisjointPaths ==
    \A j, k \in Items : j # k => OutputPathOf(urls[j]) # OutputPathOf(urls[k])

\* C15: when a batch whose identifiers resolve to different paths has ended,
\* no file exists at the resolved path of an identifier that was reported as
\* a failure, whatever the step that failed.
C15_NoFileForFailedIdentifier ==
    (fs.observed /\ mainPc = "done" /\ DisjointPaths) =>
        \A k \in Items :
            Failed(k) => OutputPathOf(urls[k]) \notin DOMAIN fs.files

\* C16: when a batch whose identifiers resolve to different paths has ended,
\* every identifier counted as a success has a file at the path GetOutputPath
\* computes for it, holding its converted content and nothing else, and the
\* files created by the run are as many as the successes counted.
C16_OneFilePerSuccess ==
    (fs.observed /\ mainPc = "done" /\ DisjointPaths) =>
        /\ \A k \in Items :
              Succeeded(k) =>
                  /\ OutputPathOf(urls[k]) \in DOMAIN fs.files
                  /\ fs.files[OutputPathOf(urls[k])] = << MarkdownOf(urls[k]) >>
        /\ successCount = Cardinality({k \in Items : Succeeded(k)})
        /\ BagCardinality(fs.createdFiles) = successCount

\* The goroutines that process identifiers: the workers, and main in
\* sequential mode.
Goroutines == Running \cup {main}

\* The k-th identifier is inside FetchWithRetries, inside the read and
\* extraction of its body.
Fetching(k) == \E f \in Goroutines : f.pc \in {"get", "sleep"} /\ f.idx = k
Extracting(k) == \E f \in Goroutines : f.pc = "extract" /\ f.idx = k

\* The processing of the k-th identifier has begun.
Started(k) ==
    \/ \E f \in Goroutines : Holds(f, k)
    \/ \E j \in DOMAIN results : results[j].idx = k
    \/ LineCount(k) > 0

\* The client answers the identifier u with a response of the 2xx range;
\* with a response that ends the fetch at the first Get.
Fetched(u) ==
    ~client.responses[u].err /\ client.responses[u].StatusCode \in 200..299
Definitive(u) ==
    ~client.responses[u].err
        /\ client.responses[u].StatusCode \in (200..299) \cup {404}

\* The number of places of urls that hold the identifier u.
Occurrences(u) == Cardinality({k \in Items : urls[k] = u})

\* An identifier receives no more than MaxRetries+1 Get calls for each place
\* it is listed at, and no more than one when the first answer is a 404 or a
\* response that is then read, whether or not the extraction fails.
GetsBounded ==
    \A u \in DOMAIN client.callCount :
        client.callCount[u]
            <= Occurrences(u) * (IF Definitive(u) THEN 1 ELSE config.MaxRetries + 1)

\* A step begins a fetch only of an identifier not yet begun and an
\* extraction only of one being fetched, and what has begun stays so: no
\* place of urls is fetched or extracted a second time.
AtMostOneExtraction ==
    \A k \in Items :
        /\ Fetching(k)' => Fetching(k) \/ ~Started(k)
        /\ Extracting(k)' => Extracting(k) \/ Fetching(k)
        /\ Started(k) => Started(k)'

C22_SleepStallsOneWorkerOnly ==
    ~ENABLED StallNext =>
        \A k \in Items :
            \/ LineCount(k) = 1
            \/ \E f \in Running : Stalled(f) /\ f.idx = k
            \/ /\ \E j \in DOMAIN jobs : jobs[j].idx = k
               /\ \A f \in Running : Stalled(f)

\* Three identifiers, two workers: the first and the third are in the hands
\* of sleeping workers and the second has been collected.
C22_Witness ==
    /\ ~ENABLED StallNext
    /\ Len(urls) = 3
    /\ numWorkers = 2
    /\ \A k \in {1, 3} : \E f \in Running : Stalled(f) /\ f.idx = k
    /\ LineCount(2) = 1

\* The number of workers whose next step is a call on the client (the Get
\* of line 95), on the file system (MkdirAll, Create and the write), on the
\* logger (the "Retrying" line).
AtClient == CountIn(workers, {f \in Running : f.pc = "get"})
AtFileSystem == CountIn(workers, {f \in Running : f.pc \in {"path", "save"}})
AtLogger == CountIn(workers, {f \in Running : f.pc = "sleep"})

\* The collector's next step logs the line of a Result, or the summary.
CollectorAtLogger == mainPc = "collect" /\ (results # <<>> \/ resultsClosed)

\* C23: in a batch run against the mock client and the observed disk, no
\* two workers are at a call on the client at once, nor on the file system,
\* nor on the logger, and no worker is at a call on the logger while the
\* collector is: nothing orders such calls, so they would overlap.
C23_NoObjectSharedByWorkers ==
    (client.mock /\ fs.observed) =>
        /\ AtClient <= 1
        /\ AtFileSystem <= 1
        /\ AtLogger + (IF CollectorAtLogger THEN 1 ELSE 0) <= 1

----------------------------------------------------------------------------
\* A direct call of FetchWithRetries, as the unit tests make it.

FetchInit ==
    /\ config \in [MaxRetries : (-1)..FetchMaxRetries, Workers : {1}]
    /\ client = AnyClient
    /\ fs = AnyFileSystem
    /\ urls = <<>>
    /\ \E u \in URLS :
         main = FetchWithRetries([Idle EXCEPT !.caller = "direct", !.url = u])
    /\ workers = EmptyBag
    /\ mainPc = "direct"
    /\ i = 0
    /\ numWorkers = 0
    /\ wg = 0
    /\ jobs = <<>>
    /\ jobsClosed = FALSE
    /\ results = <<>>
    /\ resultsClosed = FALSE
    /\ waiterPc = "none"
    /\ successCount = 0
    /\ errorCount = 0
    /\ messages = EmptyBag
    /\ ret = "none"

FetchNext ==
    \/ Sleep(main)
    \/ \E r \in Responses : Get(main, r)

FetchSpec == FetchInit /\ [][FetchNext]_vars

----------------------------------------------------------------------------
\* Properties of FetchWithRetries, checked under FetchSpec.

\* The Get calls, and the Sleep calls, of the call in progress, in order.
Gets(p) == SelectSeq(p.events, LAMBDA e : e.op = "Get")
Sleeps(p) == SelectSeq(p.events, LAMBDA e : e.op = "Sleep")

IsGet(e, codes) == e.op = "Get" /\ ~e.err /\ e.StatusCode \in codes
Is2xx(e) == IsGet(e, 200..299)
Is404(e) == IsGet(e, {404})

\* A transport error, or a status that is neither 2xx nor 404.
Transient(e) == e.op = "Get" /\ (e.err \/ ~(e.StatusCode \in (200..299) \cup {404}))

\* The direct call has returned.
Returned == mainPc = "direct" /\ main.pc = "returned"

AllTransient == \A k \in 1..Len(Gets(main)) : Transient(Gets(main)[k])

\* C3: while every attempt of a call with MaxRetries = N >= 0 fails
\* transiently, the k-th sleep lasts 2^(k-1) seconds and the first call made
\* is a Get; once such a call has returned it has returned the
\* exhausted-retries error after exactly N+1 Gets and exactly N sleeps.
C3_BackoffSequence ==
    (mainPc = "direct" /\ config.MaxRetries >= 0 /\ AllTransient) =>
        /\ \A k \in 1..Len(Sleeps(main)) : Sleeps(main)[k].d = 2 ^ (k - 1)
        /\ main.events # <<>> => main.events[1].op = "Get"
        /\ main.pc = "returned" =>
             /\ main.ret.kind = "exhausted"
             /\ Len(Gets(main)) = config.MaxRetries + 1
             /\ Len(Sleeps(main)) = config.MaxRetries

\* MaxRetries = 3, every attempt failed: 4 Gets and the sleeps 1s, 2s, 4s.
C3_Witness ==
    /\ Returned
    /\ config.MaxRetries = 3
    /\ AllTransient
    /\ Len(Gets(main)) = 4
    /\ [k \in 1..Len(Sleeps(main)) |-> Sleeps(main)[k].d] = <<1, 2, 4>>

\* C4: a Get answered 404 is the last call of FetchWithRetries, which has
\* returned the not-found error: no Get and no Sleep follows it, whatever
\* the attempt index and the remaining budget.
C4_NotFoundEndsCall ==
    mainPc = "direct" =>
        \A k \in 1..Len(main.events) :
            Is404(main.events[k]) =>
                /\ k = Len(main.events)
                /\ main.pc = "returned"
                /\ main.ret.kind = "notfound"

\* A 404 at attempt 1 of a call that had two more attempts left.
C4_Witness ==
    /\ Returned
    /\ main.ret.kind = "notfound"
    /\ main.attempt = 1
    /\ config.MaxRetries = 3
    /\ Len(Gets(main)) = 2

\* C5: a Get answered 2xx at attempt index k is the last call of
\* FetchWithRetries, which has returned the response and a nil error after
\* exactly k+1 Gets and exactly k sleeps, all earlier Gets having failed
\* transiently.
C5_SuccessShortCircuits ==
    mainPc = "direct" =>
        \A j \in 1..Len(main.events) :
            Is2xx(main.events[j]) =>
                /\ j = Len(main.events)
                /\ main.pc = "returned"
                /\ main.ret.kind = "resp"
                /\ main.ret.cause = NilErr
                /\ Len(Gets(main)) = main.attempt + 1
                /\ Len(Sleeps(main)) = main.attempt
                /\ \A k \in 1..main.attempt : Transient(Gets(main)[k])

\* The first 2xx comes at attempt 2 of 4.
C5_Witness ==
    /\ Returned
    /\ main.ret.kind = "resp"
    /\ main.attempt = 2
    /\ config.MaxRetries = 3
    /\ Len(Gets(main)) = 3
    /\ Len(Sleeps(main)) = 2

\* The failure a Get event stands for.
FailureOf(e) == IF e.err THEN [kind |-> "transport", StatusCode |-> 0]
                         ELSE [kind |-> "status", StatusCode |-> e.StatusCode]

\* C6: the exhausted-retries error of a call with MaxRetries >= 0 comes after
\* MaxRetries+1 Gets and MaxRetries sleeps, whatever the kinds of the
\* failures, names MaxRetries+1 tries and wraps the failure of the last Get.
C6_WrapsLastFailure ==
    (Returned /\ main.ret.kind = "exhausted" /\ config.MaxRetries >= 0) =>
        /\ Len(Gets(main)) = config.MaxRetries + 1
        /\ Len(Sleeps(main)) = config.MaxRetries
        /\ AllTransient
        /\ main.ret.tries = config.MaxRetries + 1
        /\ main.ret.cause = FailureOf(Gets(main)[config.MaxRetries + 1])

\* Exhausted after a transport error first and an HTTP 500 last.
C6_Witness ==
    /\ Returned
    /\ main.ret.kind = "exhausted"
    /\ config.MaxRetries = 2
    /\ Gets(main)[1].err
    /\ ~Gets(main)[3].err
    /\ main.ret.cause = [kind |-> "status", StatusCode |-> 500]

\* The "Retrying" lines of the call in progress, in order.
Retryings(p) == SelectSeq(p.events, LAMBDA e : e.op = "Retrying")

\* C21: the first call FetchWithRetries makes is a Get, with no line before
\* it; every "Retrying" line comes after a Get and is followed by a Sleep of
\* the duration the line reports and then by the next Get; the k-th line is
\* that of attempt k, reporting 2^(k-1) seconds and attempt k+1 of
\* MaxRetries+1; every Sleep has its line before it, so the lines are as
\* many as the sleeps.
C21_OneLinePerRetry ==
    mainPc = "direct" =>
        /\ main.events # <<>> => main.events[1].op = "Get"
        /\ Len(Retryings(main)) = Len(Sleeps(main))
        /\ \A k \in 1..Len(Retryings(main)) :
              Retryings(main)[k]
                = [op |-> "Retrying", d |-> 2 ^ (k - 1), n |-> k + 1,
                   of |-> config.MaxRetries + 1]
        /\ \A j \in 1..Len(main.events) :
              /\ main.events[j].op = "Retrying" =>
                    /\ j > 1 /\ main.events[j - 1].op = "Get"
                    /\ j < Len(main.events)
                    /\ main.events[j + 1]
                          = [op |-> "Sleep", d |-> main.events[j].d]
                    /\ j + 2 <= Len(main.events) => main.events[j + 2].op = "Get"
              /\ main.events[j].op = "Sleep" => main.events[j - 1].op = "Retrying"
              /\ main.events[j].op = "Get" /\ j > 1 =>
                    main.events[j - 1].op = "Sleep"

\* A call with MaxRetries = 3 has returned after three retries: the lines
\* report attempts 2/4, 3/4 and 4/4.
C21_Witness ==
    /\ Returned
    /\ config.MaxRetries = 3
    /\ Len(Gets(main)) = 4
    /\ [k \in 1..Len(Retryings(main)) |-> Retryings(main)[k].n] = <<2, 3, 4>>

----------------------------------------------------------------------------
\* Direct calls of GetOutputPath and SaveMarkdown, as the unit tests make
\* them: one identifier is resolved under one base directory and a content
\* saved at the path returned, and then the same once more.

\* What may follow the host in an identifier.
PathChars == {"/", "a", ".", "md", "?", "#", "%2E"}

\* The sequences over S of length n or less.
SeqsUpTo(S, n) == UNION {[1..k -> S] : k \in 0..n}

Origin == << "https:", "/", "/", "example.com" >>
Identifiers == {Origin \o rest : rest \in SeqsUpTo(PathChars, PathMaxLen)}

BaseDirs == {<< "/", "tmp", "/", "output" >>, << "out" >>}

TestContent == [markdown |-> "# Test Content"]

\* The disk of a direct call refuses nothing, or fails the Close of every
\* file it has created: the io.WriteCloser of FileSystem.Create may return
\* an error from Close, as *os.File does.
PathRefusals == {"none", "Close"}

PathInit ==
    /\ config = [MaxRetries |-> 0, Workers |-> 1]
    /\ client = AnyClient
    /\ \E refused \in PathRefusals : fs = Disk(refused)
    /\ urls = <<>>
    /\ \E rawURL \in Identifiers, baseDir \in BaseDirs :
          main = [pc |-> "GetOutputPath", rawURL |-> rawURL, baseDir |-> baseDir,
                  round |-> 1, outputPath |-> <<>>, returned |-> <<>>]
    /\ workers = EmptyBag
    /\ mainPc = "resolve"
    /\ i = 0
    /\ numWorkers = 0
    /\ wg = 0
    /\ jobs = <<>>
    /\ jobsClosed = FALSE
    /\ results = <<>>
    /\ resultsClosed = FALSE
    /\ waiterPc = "none"
    /\ successCount = 0
    /\ errorCount = 0
    /\ messages = EmptyBag
    /\ ret = "none"

\* What the caller notes of a round that ended: the function that returned,
\* its error, the path resolved, and the files then on the disk.
Round(name, err, outputPath, f) ==
    [call |-> name, err |-> err, outputPath |-> outputPath, files |-> f.files]

\* The caller makes two rounds.
NextCall(p) == IF p.round < 2 THEN "GetOutputPath" ELSE "done"

\* scraper.GetOutputPath(tt.url, tt.baseDir); the caller then saves to the
\* path returned, as worker does, or leaves it at that, as the test does.
GetOutputPathCall ==
    /\ mainPc = "resolve"
    /\ main.pc = "GetOutputPath"
    /\ \E r \in {GetOutputPathOn(fs, main.rawURL, main.baseDir)}, save \in BOOLEAN :
          /\ fs' = r.fs
          /\ main' = [main EXCEPT
                !.pc = IF r.err \/ ~save THEN NextCall(main) ELSE "SaveMarkdown",
                !.round = IF r.err \/ ~save THEN @ + 1 ELSE @,
                !.outputPath = r.outputPath,
                !.returned = Append(@, Round("GetOutputPath", r.err,
                                             r.outputPath, r.fs))]
    /\ UNCHANGED <<client, workers>>
    /\ UNCHANGED shared

\* scraper.SaveMarkdown(tt.content, tt.filePath) with the path resolved.
SaveMarkdownCall ==
    /\ mainPc = "resolve"
    /\ main.pc = "SaveMarkdown"
    /\ \E saved \in {Saved(fs, TestContent, main.outputPath)} :
          /\ fs' = saved
          /\ main' = [main EXCEPT
                !.pc = NextCall(main),
                !.round = @ + 1,
                !.returned = Append(@, Round("SaveMarkdown",
                                   ~SaveMarkdownOk(fs, main.outputPath),
                                   main.outputPath, saved))]
    /\ UNCHANGED <<client, workers>>
    /\ UNCHANGED shared

PathNext == GetOutputPathCall \/ SaveMarkdownCall

PathSpec == PathInit /\ [][PathNext]_vars

----------------------------------------------------------------------------
\* ExtractContent. htmlContent is modelled as the tree html.Parse builds from
\* it, a sequence of nodes in document order; the parser accepts every
\* string, so NewDocumentFromReader returns no error on one. A selector is
\* the sequence of its tokens: << ".", c >> selects by class, << t >> by tag.

Text(data) == [tag |-> "#text", class |-> "", data |-> data, kids |-> <<>>]
Element(tag, class, kids) == [tag |-> tag, class |-> class, data |-> "", kids |-> kids]

\* The element n is one the selector selects.
Matches(n, selector) ==
    IF selector[1] = "." THEN n.class = selector[2] ELSE n.tag = selector[1]

\* doc.Find(selector): the elements selected, in document order.
RECURSIVE Find(_, _)
Find(nodes, selector) ==
    IF nodes = <<>> THEN <<>>
    ELSE (IF Matches(Head(nodes), selector) THEN << Head(nodes) >> ELSE <<>>)
            \o Find(Head(nodes).kids, selector)
            \o Find(Tail(nodes), selector)

\* selection.Html(): the inner HTML of the first element of the selection.
Html(selection) == selection[1].kids

BlankLine == "(blank line)"

\* The markdown of the nodes before its blank lines are tidied: a text is
\* itself, a heading "# " and its content, and every element a block.
RECURSIVE Markdown(_)
Markdown(nodes) ==
    IF nodes = <<>> THEN <<>>
    ELSE LET n == Head(nodes)
         IN (CASE n.tag = "#text" -> << n.data >>
               [] n.tag = "h1" -> << BlankLine, "# " >> \o Markdown(n.kids)
                                       \o << BlankLine >>
               [] OTHER -> << BlankLine >> \o Markdown(n.kids) \o << BlankLine >>)
              \o Markdown(Tail(nodes))

\* The tokens with one blank line for each run of them and none at the ends;
\* `open` = a token other than a blank line has been kept.
RECURSIVE Tidy(_, _)
Tidy(tokens, open) ==
    IF \A k \in DOMAIN tokens : tokens[k] = BlankLine THEN <<>>
    ELSE IF Head(tokens) # BlankLine
      THEN << Head(tokens) >> \o Tidy(Tail(tokens), TRUE)
    ELSE IF open /\ tokens[2] # BlankLine
      THEN << BlankLine >> \o Tidy(Tail(tokens), TRUE)
    ELSE Tidy(Tail(tokens), open)

\* converter.ConvertString(html)
ConvertString(html) == Tidy(Markdown(html), FALSE)

\* ExtractContent converting the document whenever the selector matches.
ExtractContentOfDocument(htmlContent, selector) ==
    IF Len(Find(htmlContent, selector)) = 0
      THEN [markdown |-> <<>>, err |-> TRUE]
      ELSE [markdown |-> ConvertString(htmlContent), err |-> FALSE]

\* ExtractContent(htmlContent, selector): the markdown and the error.
ExtractContent(htmlContent, selector) ==
    LET selection == Find(htmlContent, selector)
    IN IF Len(selection) = 0
         THEN [markdown |-> <<>>, err |-> TRUE]
         ELSE [markdown |-> ConvertString(Html(selection)), err |-> FALSE]

\* The documents: texts and elements holding up to DocMaxKids texts, such
\* elements each inside one more element, and up to two of all these in a row.
Kinds == {<< "div", "content" >>, << "div", "other" >>, << "h1", "" >>}
Texts == {Text("a"), Text("b")}
Leaves ==
    Texts \cup {Element(kind[1], kind[2], kids) :
                    kind \in Kinds, kids \in SeqsUpTo(Texts, DocMaxKids)}
Nodes == Leaves \cup {Element(kind[1], kind[2], << n >>) : kind \in Kinds, n \in Leaves}
Documents == SeqsUpTo(Nodes, 2)
Selectors == {<< ".", "content" >>, << "div" >>, << "h1" >>}

ExtractInit ==
    /\ config = [MaxRetries |-> 0, Workers |-> 1]
    /\ client = AnyClient
    /\ fs = AnyFileSystem
    /\ urls = <<>>
    /\ \E htmlContent \in Documents, selector \in Selectors :
          main = [pc |-> "ExtractContent", htmlContent |-> htmlContent,
                  selector |-> selector, markdown |-> <<>>, err |-> FALSE]
    /\ workers = EmptyBag
    /\ mainPc = "extract"
    /\ i = 0
    /\ numWorkers = 0
    /\ wg = 0
    /\ jobs = <<>>
    /\ jobsClosed = FALSE
    /\ results = <<>>
    /\ resultsClosed = FALSE
    /\ waiterPc = "none"
    /\ successCount = 0
    /\ errorCount = 0
    /\ messages = EmptyBag
    /\ ret = "none"

\* result, err := scraper.ExtractContent(tt.html, tt.selector)
ExtractContentCall ==
    /\ mainPc = "extract"
    /\ main.pc = "ExtractContent"
    /\ \E r \in {ExtractContent(main.htmlContent, main.selector)} :
          main' = [main EXCEPT !.pc = "done", !.markdown = r.markdown, !.err = r.err]
    /\ UNCHANGED <<client, fs, workers>>
    /\ UNCHANGED shared

ExtractNext == ExtractContentCall

ExtractSpec == ExtractInit /\ [][ExtractNext]_vars

----------------------------------------------------------------------------
\* Properties of GetOutputPath and SaveMarkdown, checked under PathSpec.

\* The first call of GetOutputPath has just returned a path and no error.
Resolves == Len(main.returned) = 1 /\ ~main.returned[1].err

\* What follows the host name "example.com" in the identifier.
AfterHost(rawURL) == SubSeq(rawURL, Len(Origin) + 1, Len(rawURL))

\* The identifier up to its query and fragment.
Stem(rawURL) ==
    IF \E k \in 1..Len(rawURL) : rawURL[k] \in {"?", "#"}
      THEN SubSeq(rawURL, 1,
               (CHOOSE k \in 1..Len(rawURL) :
                   /\ rawURL[k] \in {"?", "#"}
                   /\ \A j \in 1..(k - 1) : rawURL[j] \notin {"?", "#"}) - 1)
      ELSE rawURL

\* The URI path of the identifier, decoded: what follows the authority, from
\* its first "/" on, with every %2E read as ".".
DecodedPath(rawURL) ==
    LET rest == AfterHost(Stem(rawURL))
        from == IF \E k \in 1..Len(rest) : rest[k] = "/"
                  THEN CHOOSE k \in 1..Len(rest) :
                          rest[k] = "/" /\ \A j \in 1..(k - 1) : rest[j] # "/"
                  ELSE Len(rest) + 1
    IN [k \in 1..(Len(rest) - from + 1) |->
           IF rest[from + k - 1] = "%2E" THEN "." ELSE rest[from + k - 1]]

\* A decoded path less its leading "/"; "index" for an empty one; the
\* name with ".md" at its end.
Relative(decoded) ==
    IF decoded # <<>> /\ decoded[1] = "/" THEN Tail(decoded) ELSE decoded
IndexIfEmpty(relative) == IF relative = <<>> THEN << "index" >> ELSE relative
EndingInMd(named) ==
    IF /\ Len(named) >= 2
       /\ named[Len(named) - 1] = "."
       /\ named[Len(named)] = "md"
      THEN named
      ELSE named \o << ".", "md" >>

\* The name the claim gives the output file, relative to the root.
NameUnderRoot(rawURL) == EndingInMd(IndexIfEmpty(Relative(DecodedPath(rawURL))))

\* The identifier with another host, another query, another fragment.
Variants(rawURL) ==
    LET stem == Stem(rawURL)
        moved == << "https:", "/", "/", "example.net" >> \o AfterHost(stem)
    IN {stem, moved,
        stem \o << "?", "a", "/", "md" >>,
        stem \o << "#", "/", "a" >>,
        moved \o << "?", ".", "md", "#", "/" >>}

\* C17: when GetOutputPath returns a path it is the base directory joined
\* with the decoded URI path of the identifier, less its leading "/",
\* "index" standing in for an empty path and ".md" appended unless the path
\* ends in it; /a/a resolves to a/a.md, no path and "/" to index.md; and the
\* identifier resolves to the same path with another host, query or fragment.
C17_PathFromUriPath ==
    (mainPc = "resolve" /\ Resolves) =>
        /\ main.returned[1].outputPath
              = Join(main.baseDir, NameUnderRoot(main.rawURL))
        /\ main.rawURL = Origin \o << "/", "a", "/", "a" >> =>
              main.returned[1].outputPath
                = main.baseDir \o << "/", "a", "/", "a", ".", "md" >>
        /\ main.rawURL \in {Origin, Origin \o << "/" >>} =>
              main.returned[1].outputPath
                = main.baseDir \o << "/", "index", ".", "md" >>
        /\ \A v \in Variants(main.rawURL) :
              OutputPath(v, main.baseDir)
                = [err |-> FALSE, outputPath |-> main.returned[1].outputPath]

\* https://example.com/%2Emd?# has resolved to /tmp/output/.md
C17_Witness ==
    /\ mainPc = "resolve"
    /\ Resolves
    /\ main.rawURL = Origin \o << "/", "%2E", "md", "?" >>
    /\ main.baseDir = << "/", "tmp", "/", "output" >>
    /\ main.returned[1].outputPath = << "/", "tmp", "/", "output", "/", ".", "md" >>

\* The file the caller's rounds are to leave behind, alone on the disk.
OneFile(filePath) == WithFile(Disk("none"), filePath, << TestContent >>)

\* C18: when the first GetOutputPath returns a path, every later call on the
\* same identifier and root succeeds too, at its second MkdirAll of the
\* existing directory as at its first; GetOutputPath returns that same path
\* and leaves the files as they were, and SaveMarkdown of the same content
\* leaves the one file with that content, the second time as the first.
C18_ResolveAndSaveTwice ==
    (mainPc = "resolve" /\ main.returned # <<>> /\ ~main.returned[1].err) =>
        \A k \in DOMAIN main.returned :
            /\ ~main.returned[k].err
            /\ main.returned[k].outputPath = main.returned[1].outputPath
            /\ main.returned[k].files
                  = IF \E j \in 1..k : main.returned[j].call = "SaveMarkdown"
                      THEN OneFile(main.returned[1].outputPath)
                      ELSE << >>

\* https://example.com/a/a was resolved and saved under out, then resolved
\* and saved again.
C18_Witness ==
    /\ mainPc = "resolve"
    /\ main.rawURL = Origin \o << "/", "a", "/", "a" >>
    /\ main.baseDir = << "out" >>
    /\ Len(main.returned) = 4
    /\ \A k \in {1, 3} : main.returned[k].call = "GetOutputPath"
    /\ \A k \in {2, 4} : main.returned[k].call = "SaveMarkdown"
    /\ \A k \in 1..4 : ~main.returned[k].err
    /\ main.pc = "done"

\* The element n or one inside it is selected.
RECURSIVE Selects(_, _)
Selects(n, selector) ==
    Matches(n, selector) \/ \E k \in DOMAIN n.kids : Selects(n.kids[k], selector)

\* The nodes with every text outside the first selected element replaced by
\* the text "z"; `found` = that element lies before these nodes.
RECURSIVE Masked(_, _, _)
Masked(nodes, selector, found) ==
    IF nodes = <<>> THEN <<>>
    ELSE LET n == Head(nodes)
             masked == IF n.tag = "#text" THEN Text("z")
                       ELSE IF ~found /\ Matches(n, selector) THEN n
                       ELSE [n EXCEPT !.kids = Masked(n.kids, selector, found)]
         IN << masked >> \o Masked(Tail(nodes), selector,
                                    found \/ Selects(n, selector))

\* The elements of the nodes, those inside them included.
RECURSIVE Elements(_)
Elements(nodes) ==
    UNION {{nodes[k]} \cup Elements(nodes[k].kids) :
              k \in {j \in DOMAIN nodes : nodes[j].tag # "#text"}}

\* C19: ExtractContent returns an error and no text when the selector
\* selects no element of the document; when it selects one it returns no
\* error and the text it returns for the document with every text outside
\* the first selected element changed to another; of
\* b<div class="content"><h1>a</h1></div> it returns "# a" for .content and
\* for div, and "a" for h1.
C19_OnlyTheMatch ==
    (mainPc = "extract" /\ main.pc = "done") =>
        /\ (\A n \in Elements(main.htmlContent) : ~Matches(n, main.selector)) =>
              main.err /\ main.markdown = <<>>
        /\ (\E n \in Elements(main.htmlContent) : Matches(n, main.selector)) =>
              /\ ~main.err
              /\ ExtractContent(Masked(main.htmlContent, main.selector, FALSE),
                                main.selector)
                    = [markdown |-> main.markdown, err |-> FALSE]
        /\ main.htmlContent
              = << Text("b"),
                   Element("div", "content",
                           << Element("h1", "", << Text("a") >>) >>) >> =>
              main.markdown = IF main.selector = << "h1" >> THEN << "a" >>
                                                            ELSE << "# ", "a" >>

\* .content has selected the second of two elements, the first holding a
\* text and the second a heading, and the heading alone was converted.
C19_Witness ==
    /\ mainPc = "extract"
    /\ main.pc = "done"
    /\ main.selector = << ".", "content" >>
    /\ main.htmlContent
          = << Element("div", "other", << Text("b") >>),
               Element("div", "content",
                       << Element("h1", "", << Text("a") >>) >>) >>
    /\ main.markdown = << "# ", "a" >>
    /\ ~main.err

----------------------------------------------------------------------------
\* MarkdownHandler.ServeHTTP, as the unit tests call it: a handler over one
\* base directory and one MockFileSystem answers one request. Paths are
\* sequences of tokens as above; "base" and "a" are runs of characters, so
\* << "base", "a" >> is the name "basea".

ServeMaxLen == 5        \* most tokens after the leading "/" of a request path

ServePathChars == {"/", ".", "md", "a", "base", "index"}
RequestPaths == {<< "/" >> \o rest : rest \in SeqsUpTo(ServePathChars, ServeMaxLen)}
Methods == {"GET", "POST", "HEAD"}

BaseDir == << "/", "base" >>

\* The files the tests put on the mock, and some next to the base directory.
ServedFiles ==
    (<< "/", "base", "/", "index", ".", "md" >> :> "# Welcome")
    @@ (<< "/", "base", "/", "a", ".", "md" >> :> "# Test")
    @@ (<< "/", "base", "/", "a", "/", "a", ".", "md" >> :> "# Test Content")
    @@ (<< "/", "base", "a", ".", "md" >> :> "sibling basea.md")
    @@ (<< "/", "base", ".", "md" >> :> "sibling base.md")
    @@ (<< "/", "a", ".", "md" >> :> "outside")

\* A directory MkdirAll has made on the mock.
ServedDirectories == {<< "/", "base", "/", "md", ".", "md" >>}

\* MockFileSystem with its SetFile, SetStatError and SetReadError applied.
MockFileSystem(files, directories, statError, readError) ==
    [observed |-> TRUE, files |-> files, directories |-> directories,
     statError |-> statError, readError |-> readError]

NewMockFileSystem == MockFileSystem(<< >>, {}, FALSE, FALSE)

ServeFileSystems ==
    {NewMockFileSystem,
     MockFileSystem(ServedFiles, ServedDirectories, FALSE, FALSE),
     MockFileSystem(ServedFiles, ServedDirectories, TRUE, FALSE),
     MockFileSystem(ServedFiles, ServedDirectories, FALSE, TRUE)}

\* MockFileSystem.Stat
Stat(f, name) ==
    [err |-> f.statError,
     exists |-> ~f.statError /\ (name \in DOMAIN f.files \/ name \in f.directories)]

\* MockFileSystem.ReadFile
ReadFile(f, filename) ==
    IF f.readError \/ filename \notin DOMAIN f.files
      THEN [err |-> TRUE, content |-> ""]
      ELSE [err |-> FALSE, content |-> f.files[filename]]

NoHeader == [ContentType |-> "", CacheControl |-> ""]

\* The recorder before the handler has written to it.
NewRecorder == [Code |-> 0, Header |-> NoHeader, Body |-> <<>>]

\* http.Error(w, error, code): a plain-text content type, the status, and
\* the message on a line.
Error(error, code) ==
    [Code |-> code,
     Header |-> [ContentType |-> "text/plain; charset=utf-8", CacheControl |-> ""],
     Body |-> << error, "\n" >>]

\* http.NotFound
NotFound == Error("404 page not found", 404)

\* Lines 96-101: the two headers, and the content written with the status
\* Write implies.
ServedContent(content) ==
    [Code |-> 200,
     Header |-> [ContentType |-> "text/markdown; charset=utf-8",
                 CacheControl |-> "public, max-age=3600"],
     Body |-> << content >>]

StatCall(name) == [op |-> "Stat", name |-> name]
ReadFileCall(name) == [op |-> "ReadFile", name |-> name]

\* What a call of the handler leaves: the response, the calls it made on the
\* file system, and the lines it logged.
Handled(w, calls, lines) == [w |-> w, calls |-> calls, messages |-> lines]

\* The request path with ".md" appended whether or not it ends in it.
RequestPathAlwaysAppends(urlPath) ==
    IF TrimPrefix(urlPath, << "/" >>) = <<>> THEN << "index", ".", "md" >>
    ELSE TrimPrefix(urlPath, << "/" >>) \o << ".", "md" >>

\* Lines 66-74: the request path less its leading "/", "index.md" if that
\* is empty, with ".md" appended unless it ends in it.
RequestPath(urlPath) ==
    IF TrimPrefix(urlPath, << "/" >>) = <<>> THEN << "index", ".", "md" >>
    ELSE IF HasSuffix(TrimPrefix(urlPath, << "/" >>), << ".", "md" >>)
      THEN TrimPrefix(urlPath, << "/" >>)
    ELSE TrimPrefix(urlPath, << "/" >>) \o << ".", "md" >>

\* Line 76
FilePath(baseDir, urlPath) == Join(baseDir, RequestPath(urlPath))

\* The caching header set before the file is looked up, so that it stays on
\* the error responses.
ServeFileHeadersFirst(f, filePath) ==
    IF Stat(f, filePath).err \/ ~Stat(f, filePath).exists
      THEN Handled([NotFound EXCEPT !.Header.CacheControl = "public, max-age=3600"],
                   << StatCall(filePath) >>,
                   << [line |-> "File not found", filePath |-> filePath] >>)
    ELSE IF ReadFile(f, filePath).err
      THEN Handled([Error("Internal server error", 500)
                       EXCEPT !.Header.CacheControl = "public, max-age=3600"],
                   << StatCall(filePath), ReadFileCall(filePath) >>,
                   << [line |-> "Error reading file", filePath |-> filePath] >>)
    ELSE Handled(ServedContent(ReadFile(f, filePath).content),
                 << StatCall(filePath), ReadFileCall(filePath) >>,
                 << [line |-> "Serving", filePath |-> filePath] >>)

\* Lines 83-101: Stat, ReadFile and the response.
ServeFile(f, filePath) ==
    IF Stat(f, filePath).err \/ ~Stat(f, filePath).exists
      THEN Handled(NotFound, << StatCall(filePath) >>,
                   << [line |-> "File not found", filePath |-> filePath] >>)
    ELSE IF ReadFile(f, filePath).err
      THEN Handled(Error("Internal server error", 500),
                   << StatCall(filePath), ReadFileCall(filePath) >>,
                   << [line |-> "Error reading file", filePath |-> filePath] >>)
    ELSE Handled(ServedContent(ReadFile(f, filePath).content),
                 << StatCall(filePath), ReadFileCall(filePath) >>,
                 << [line |-> "Serving", filePath |-> filePath] >>)

\* Lines 78-81: the prefix test on the path joined, and then the file.
ServePath(f, baseDir, filePath) ==
    IF ~HasPrefix(filePath, baseDir)
      THEN Handled(Error("Invalid path", 400), <<>>, <<>>)
      ELSE ServeFile(f, filePath)

\* The handler with the method tested only where the path is served.
ServeHTTPPathFirst(f, baseDir, r) ==
    IF ~HasPrefix(FilePath(baseDir, r.URL.Path), baseDir)
      THEN Handled(Error("Invalid path", 400), <<>>, <<>>)
    ELSE IF r.Method # "GET"
      THEN Handled(Error("Method not allowed", 405), <<>>, <<>>)
    ELSE ServeFile(f, FilePath(baseDir, r.URL.Path))

\* Lines 59-102: the method test, and then the path.
ServeHTTPOn(f, baseDir, r) ==
    IF r.Method # "GET"
      THEN Handled(Error("Method not allowed", 405), <<>>, <<>>)
      ELSE ServePath(f, baseDir, FilePath(baseDir, r.URL.Path))

ServeInit ==
    /\ config = [MaxRetries |-> 0, Workers |-> 1]
    /\ client = AnyClient
    /\ fs \in ServeFileSystems
    /\ urls = <<>>
    /\ \E method \in Methods, path \in RequestPaths :
          main = [pc |-> "ServeHTTP", baseDir |-> BaseDir,
                  r |-> [Method |-> method, URL |-> [Path |-> path]],
                  w |-> NewRecorder, calls |-> <<>>, messages |-> <<>>]
    /\ workers = EmptyBag
    /\ mainPc = "serve"
    /\ i = 0
    /\ numWorkers = 0
    /\ wg = 0
    /\ jobs = <<>>
    /\ jobsClosed = FALSE
    /\ results = <<>>
    /\ resultsClosed = FALSE
    /\ waiterPc = "none"
    /\ successCount = 0
    /\ errorCount = 0
    /\ messages = EmptyBag
    /\ ret = "none"

\* handler.ServeHTTP(w, req)
ServeHTTP ==
    /\ mainPc = "serve"
    /\ main.pc = "ServeHTTP"
    /\ \E h \in {ServeHTTPOn(fs, main.baseDir, main.r)} :
          main' = [main EXCEPT !.pc = "done", !.w = h.w, !.calls = h.calls,
                               !.messages = h.messages]
    /\ UNCHANGED <<client, fs, workers>>
    /\ UNCHANGED shared

ServeNext == ServeHTTP

ServeSpec == ServeInit /\ [][ServeNext]_vars

\* filePath is baseDir or lies under it.
Within(filePath, baseDir) ==
    filePath = baseDir \/ HasPrefix(filePath, baseDir \o << "/" >>)

\* The handler has answered a GET request.
AnsweredGet == mainPc = "serve" /\ main.pc = "done" /\ main.r.Method = "GET"

\* C24: a GET request whose file path, baseDir joined with the normalized
\* request path, lies outside the base directory is answered 400 and no
\* call is made on the file system; a path in a sibling directory whose name
\* starts with the base directory's name is such a path.
C24_OutsideBaseRejected ==
    (AnsweredGet /\ ~Within(FilePath(main.baseDir, main.r.URL.Path), main.baseDir)) =>
        main.w.Code = 400 /\ main.calls = <<>>

\* The handler has answered a request.
Answered == mainPc = "serve" /\ main.pc = "done"

\* C25: a request whose method is not GET is answered 405 "Method not
\* allowed" whatever its path, one that escapes the base directory or names
\* a file included, with no call on the file system and no line logged.
C25_NotGetIs405 ==
    (Answered /\ main.r.Method # "GET") =>
        /\ main.w.Code = 405
        /\ main.w.Body = << "Method not allowed", "\n" >>
        /\ main.calls = <<>>
        /\ main.messages = <<>>

\* A POST for a path that climbs out of the base directory has been
\* answered 405.
C25_Witness ==
    /\ Answered
    /\ main.w.Code = 405
    /\ main.r.Method = "POST"
    /\ main.r.URL.Path = << "/", ".", ".", "/", "a" >>

\* The name of the first call the handler made on the file system.
LookedUp == main.calls[1].name

\* The request path less its leading "/".
Stripped == IF main.r.URL.Path[1] = "/" THEN Tail(main.r.URL.Path)
                                        ELSE main.r.URL.Path

\* C26: the file a GET request that is not rejected looks up is baseDir
\* joined with the request path less its leading "/", "index.md" for the
\* empty path and ".md" appended unless the path ends in ".md"; /a/a and
\* /a/a.md are looked up in /base/a/a.md, / and /index in /base/index.md.
C26_FileLookedUp ==
    (AnsweredGet /\ main.w.Code # 400) =>
        /\ main.calls # <<>>
        /\ main.calls[1].op = "Stat"
        /\ \A k \in DOMAIN main.calls : main.calls[k].name = LookedUp
        /\ LookedUp = Join(main.baseDir,
                           IF Stripped = <<>> THEN << "index", ".", "md" >>
                           ELSE IF HasSuffix(Stripped, << ".", "md" >>) THEN Stripped
                           ELSE Stripped \o << ".", "md" >>)
        /\ main.r.URL.Path \in {<< "/", "a", "/", "a" >>,
                                << "/", "a", "/", "a", ".", "md" >>} =>
              LookedUp = << "/", "base", "/", "a", "/", "a", ".", "md" >>
        /\ main.r.URL.Path \in {<< "/" >>, << "/", "index" >>} =>
              LookedUp = << "/", "base", "/", "index", ".", "md" >>

\* /a/a.md has been served from /base/a/a.md.
C26_Witness ==
    /\ AnsweredGet
    /\ main.r.URL.Path = << "/", "a", "/", "a", ".", "md" >>
    /\ main.w.Code = 200
    /\ main.calls = << StatCall(<< "/", "base", "/", "a", "/", "a", ".", "md" >>),
                       ReadFileCall(<< "/", "base", "/", "a", "/", "a", ".", "md" >>) >>

\* The response carries the two headers of a served file.
MarkdownHeaders ==
    /\ main.w.Header.ContentType = "text/markdown; charset=utf-8"
    /\ main.w.Header.CacheControl = "public, max-age=3600"

\* The response carries neither of them.
NoMarkdownHeader ==
    /\ main.w.Header.ContentType # "text/markdown; charset=utf-8"
    /\ main.w.Header.CacheControl # "public, max-age=3600"

\* The handler called ReadFile.
ReadFileCalled == \E k \in DOMAIN main.calls : main.calls[k].op = "ReadFile"

\* C27: a GET request for a path inside the base directory is answered 404,
\* ReadFile not called, when Stat fails or reports nothing there; 500 when
\* something is there and ReadFile fails; otherwise 200 with the content of
\* the file as its body. The 200 response carries the content type
\* text/markdown; charset=utf-8 and Cache-Control public, max-age=3600, and
\* no other response of the handler carries either.
C27_StatusOfLookup ==
    /\ (Answered /\ main.w.Code # 200) => NoMarkdownHeader
    /\ (AnsweredGet /\ Within(FilePath(main.baseDir, main.r.URL.Path), main.baseDir)) =>
          IF \/ fs.statError
             \/ LookedUp \notin DOMAIN fs.files \cup fs.directories
            THEN main.w.Code = 404 /\ ~ReadFileCalled
          ELSE IF fs.readError \/ LookedUp \notin DOMAIN fs.files
            THEN main.w.Code = 500
          ELSE /\ main.w.Code = 200
               /\ main.w.Body = << fs.files[LookedUp] >>
               /\ MarkdownHeaders

\* A file that is there has been answered 500 because ReadFile failed.
C27_Witness ==
    /\ AnsweredGet
    /\ main.w.Code = 500
    /\ fs.readError
    /\ LookedUp \in DOMAIN fs.files
    /\ ReadFileCalled

----------------------------------------------------------------------------
\* The sitemap service, as its unit tests call it: FetchSitemap, FilterURLs
\* and GetURLsFromSitemap on a Service whose client has one answer for the
\* sitemap URL. A body is the sequence of tokens xml.Decoder reads from it:
\* start tags, end tags, character data, and "bad" for what is no token
\* (an unclosed "<"). A location is a sequence of characters as above.

SitemapMaxUrls == 2     \* most url elements of a sitemap served, most locations of one filtered

SitemapURL == "https://example.com/sitemap.xml"

Locs == {Origin \o << "/" >>,
         Origin \o << "/", "docs", "/" >>,
         Origin \o << "/", "docs", "/", "api" >>,
         Origin \o << "/", "blog", "/" >>}

PathFilters == {<<>>, << "/", "docs", "/" >>, << "/", "docs" >>, << "/", "blog" >>,
                << "/", "nonexistent" >>}

StartElement(name) == [kind |-> "start", name |-> name, text |-> <<>>]
EndElement(name) == [kind |-> "end", name |-> name, text |-> <<>>]
CharData(text) == [kind |-> "text", name |-> "", text |-> text]
BadToken == [kind |-> "bad", name |-> "", text |-> <<>>]

\* <url><loc>loc</loc><lastmod>...</lastmod></url>
UrlElement(loc) ==
    << StartElement("url"), StartElement("loc"), CharData(loc), EndElement("loc"),
       StartElement("lastmod"), EndElement("lastmod"), EndElement("url") >>

RECURSIVE UrlElements(_)
UrlElements(locs) ==
    IF locs = <<>> THEN <<>> ELSE UrlElement(Head(locs)) \o UrlElements(Tail(locs))

\* <urlset> with one url element for each of locs
UrlsetDocument(locs) ==
    << StartElement("urlset") >> \o UrlElements(locs) \o << EndElement("urlset") >>

\* <rss><channel>Not a sitemap</channel></rss>
RssDocument ==
    << StartElement("rss"), StartElement("channel"),
       CharData(<< "Not a sitemap" >>), EndElement("channel"), EndElement("rss") >>

\* <sitemapindex><sitemap><loc>...</loc></sitemap></sitemapindex>
SitemapIndexDocument ==
    << StartElement("sitemapindex"), StartElement("sitemap"), StartElement("loc"),
       CharData(Origin \o << "/", "docs", "/" >>), EndElement("loc"),
       EndElement("sitemap"), EndElement("sitemapindex") >>

\* <urlset><url><loc>a<b>b</b></loc><loc>loc</loc></url><x><url>...</url></x></urlset>
OddUrlsetDocument(loc) ==
    << StartElement("urlset"), StartElement("url"), StartElement("loc"),
       CharData(<< "a" >>), StartElement("b"), CharData(<< "b" >>), EndElement("b"),
       EndElement("loc"), StartElement("loc"), CharData(loc), EndElement("loc"),
       EndElement("url"), StartElement("x") >> \o UrlElement(loc)
    \o << EndElement("x"), EndElement("urlset") >>

SitemapDocuments ==
    {UrlsetDocument(locs) : locs \in SeqsUpTo(Locs, SitemapMaxUrls)}
    \cup {RssDocument, SitemapIndexDocument,
          OddUrlsetDocument(Origin \o << "/", "blog", "/" >>)}

\* The bodies served: the documents, each cut short at every token, each
\* with something that is no token after it, each with text before it, and
\* a url element closed by the wrong tag.
Bodies ==
    UNION {{SubSeq(d, 1, k) : k \in 0..Len(d)} : d \in SitemapDocuments}
    \cup {d \o << BadToken >> : d \in SitemapDocuments}
    \cup {<< CharData(<< "not valid xml" >>) >> \o d : d \in SitemapDocuments}
    \cup {<< CharData(<< "not valid xml" >>) >>,
          << BadToken >>,
          << StartElement("urlset"), StartElement("url"), EndElement("urlset") >>}

SitemapStatusCodes == {199, 200, 299, 300, 403, 404, 500}

\* What Get answers: an error, or a response with a status, a body, and
\* whether reading the body fails.
SitemapAnswers ==
    {[err |-> TRUE, StatusCode |-> 0, readErr |-> FALSE, body |-> <<>>]}
    \cup {[err |-> FALSE, StatusCode |-> c, readErr |-> FALSE, body |-> b] :
             c \in SitemapStatusCodes, b \in Bodies}
    \cup {[err |-> FALSE, StatusCode |-> 200, readErr |-> TRUE, body |-> b] :
             b \in {UrlsetDocument(<<>>)}}

\* What Decode leaves: its error ("nil" for none) and the URLs of the
\* sitemap decoded into.
Decoded(err, URLs) == [err |-> err, URLs |-> URLs]

RECURSIVE Unmarshal(_, _, _, _)
\* decoder.Decode(&sitemap) on the tokens left of the body: `stack` are the
\* elements open, URLs the url elements of the urlset closed so far, loc the
\* character data of the loc element last opened in the url element open.
\* Tokens before the first start tag are passed over; a first element that
\* is not urlset is the error "expected element type"; the urlset is read up
\* to its end tag and nothing after it is.
Unmarshal(body, stack, URLs, loc) ==
    IF body = <<>>
      THEN Decoded(IF stack = <<>> THEN "EOF" ELSE "XML syntax error", <<>>)
    ELSE IF body[1].kind = "bad" THEN Decoded("XML syntax error", <<>>)
    ELSE IF body[1].kind = "text"
      THEN Unmarshal(Tail(body), stack, URLs,
                     IF stack = << "urlset", "url", "loc" >>
                       THEN loc \o body[1].text ELSE loc)
    ELSE IF body[1].kind = "start"
      THEN IF stack = <<>> /\ body[1].name # "urlset"
             THEN Decoded("expected element type", <<>>)
             ELSE Unmarshal(Tail(body), Append(stack, body[1].name), URLs,
                            IF Append(stack, body[1].name)
                                  \in {<< "urlset", "url" >>,
                                       << "urlset", "url", "loc" >>}
                              THEN <<>> ELSE loc)
    ELSE IF stack = <<>> \/ stack[Len(stack)] # body[1].name
      THEN Decoded("XML syntax error", <<>>)
    ELSE IF Len(stack) = 1 THEN Decoded("nil", URLs)
    ELSE Unmarshal(Tail(body), SubSeq(stack, 1, Len(stack) - 1),
                   IF stack = << "urlset", "url" >>
                     THEN Append(URLs, [Loc |-> loc]) ELSE URLs,
                   loc)

\* decoder.Decode(&sitemap)
Decode(body) == Unmarshal(body, <<>>, <<>>, <<>>)

NilSitemap == [nil |-> TRUE, URLs |-> <<>>]
Sitemap(URLs) == [nil |-> FALSE, URLs |-> URLs]

\* A []string: nil or not, and its elements.
NilSlice == [nil |-> TRUE, elems |-> <<>>]
Slice(elems) == [nil |-> elems = <<>>, elems |-> elems]

FetchingLine == [line |-> "Fetching sitemap", n |-> 0, pathFilter |-> <<>>]
WarningLine == [line |-> "Warning: Document is not a sitemap format, found 0 URLs",
                n |-> 0, pathFilter |-> <<>>]
FoundLine(n) == [line |-> "Found", n |-> n, pathFilter |-> <<>>]
FilteredLine(n, pathFilter) == [line |-> "Filtered to", n |-> n, pathFilter |-> pathFilter]

\* What FetchSitemap returns, with the lines it logged.
FetchedSitemap(sitemap, err, lines) == [sitemap |-> sitemap, err |-> err, lines |-> lines]

\* Lines 64-76: the value returned for what Decode left.
FetchedOf(decoded) ==
    IF decoded.err = "expected element type"
      THEN FetchedSitemap(Sitemap(<<>>), "nil", << FetchingLine, WarningLine >>)
    ELSE IF decoded.err # "nil"
      THEN FetchedSitemap(NilSitemap, "failed to parse sitemap XML", << FetchingLine >>)
    ELSE FetchedSitemap(Sitemap(decoded.URLs), "nil",
                    << FetchingLine, FoundLine(Len(decoded.URLs)) >>)

\* FetchSitemap taking every status below 400 for a success.
FetchSitemapFollowsRedirects(r) ==
    IF r.err THEN FetchedSitemap(NilSitemap, "failed to fetch sitemap", << FetchingLine >>)
    ELSE IF r.StatusCode >= 400
      THEN FetchedSitemap(NilSitemap, "sitemap request failed with status",
                          << FetchingLine >>)
    ELSE IF r.readErr
      THEN FetchedSitemap(NilSitemap, "failed to read sitemap response",
                          << FetchingLine >>)
    ELSE FetchedOf(Decode(r.body))

\* Lines 46-76 after the Get, answered r.
FetchSitemapOn(r) ==
    IF r.err THEN FetchedSitemap(NilSitemap, "failed to fetch sitemap", << FetchingLine >>)
    ELSE IF r.StatusCode < 200 \/ r.StatusCode >= 300
      THEN FetchedSitemap(NilSitemap, "sitemap request failed with status",
                      << FetchingLine >>)
    ELSE IF r.readErr
      THEN FetchedSitemap(NilSitemap, "failed to read sitemap response", << FetchingLine >>)
    ELSE FetchedOf(Decode(r.body))

\* strings.Contains
Contains(s, substr) ==
    \E k \in 0..(Len(s) - Len(substr)) : SubSeq(s, k + 1, k + Len(substr)) = substr

RECURSIVE FilterDistinct(_, _)
\* The loop passing over a location that comes again further on.
FilterDistinct(URLs, pathFilter) ==
    IF URLs = <<>> THEN <<>>
    ELSE (IF /\ pathFilter = <<>> \/ Contains(URLs[1].Loc, pathFilter)
             /\ \A k \in 2..Len(URLs) : URLs[k].Loc # URLs[1].Loc
            THEN << URLs[1].Loc >> ELSE <<>>)
         \o FilterDistinct(Tail(URLs), pathFilter)

RECURSIVE Filter(_, _)
\* Lines 83-87: the loop over sitemap.URLs.
Filter(URLs, pathFilter) ==
    IF URLs = <<>> THEN <<>>
    ELSE (IF pathFilter = <<>> \/ Contains(URLs[1].Loc, pathFilter)
            THEN << URLs[1].Loc >> ELSE <<>>)
         \o Filter(Tail(URLs), pathFilter)

\* What FilterURLs returns, with the lines it logged.
Filtered(filteredURLs, pathFilter) ==
    [urls |-> Slice(filteredURLs),
     lines |-> IF pathFilter # <<>>
                 THEN << FilteredLine(Len(filteredURLs), pathFilter) >> ELSE <<>>]

\* FilterURLs(sitemap, pathFilter)
FilterURLs(sitemap, pathFilter) == Filtered(Filter(sitemap.URLs, pathFilter), pathFilter)

\* Lines 97-104: GetURLsFromSitemap on what FetchSitemap returned.
GetURLsOf(fetched, pathFilter) ==
    IF fetched.err # "nil"
      THEN [urls |-> NilSlice, err |-> fetched.err, lines |-> fetched.lines]
      ELSE [urls |-> FilterURLs(fetched.sitemap, pathFilter).urls,
            err |-> "nil",
            lines |-> fetched.lines \o FilterURLs(fetched.sitemap, pathFilter).lines]

SitemapClients ==
    {MockHTTPClient([u \in {SitemapURL} |-> r], [u \in {SitemapURL} |-> FALSE]) :
        r \in SitemapAnswers}

SitemapInit ==
    /\ config = [MaxRetries |-> 0, Workers |-> 1]
    /\ fs = AnyFileSystem
    /\ urls = <<>>
    /\ \/ /\ client \in SitemapClients
          /\ \E pc \in {"FetchSitemap", "GetURLsFromSitemap"},
                pathFilter \in PathFilters :
                /\ pc = "FetchSitemap" => pathFilter = <<>>
                /\ main = [pc |-> pc, sitemap |-> NilSitemap, pathFilter |-> pathFilter,
                           urls |-> NilSlice, err |-> "nil", lines |-> <<>>]
       \/ /\ client = AnyClient
          /\ \E locs \in SeqsUpTo(Locs, SitemapMaxUrls), pathFilter \in PathFilters :
                main = [pc |-> "FilterURLs",
                        sitemap |-> Sitemap([k \in DOMAIN locs |-> [Loc |-> locs[k]]]),
                        pathFilter |-> pathFilter,
                        urls |-> NilSlice, err |-> "nil", lines |-> <<>>]
    /\ workers = EmptyBag
    /\ mainPc = "sitemap"
    /\ i = 0
    /\ numWorkers = 0
    /\ wg = 0
    /\ jobs = <<>>
    /\ jobsClosed = FALSE
    /\ results = <<>>
    /\ resultsClosed = FALSE
    /\ waiterPc = "none"
    /\ successCount = 0
    /\ errorCount = 0
    /\ messages = EmptyBag
    /\ ret = "none"

\* service.FetchSitemap("https://example.com/sitemap.xml")
FetchSitemapCall ==
    /\ mainPc = "sitemap"
    /\ main.pc = "FetchSitemap"
    /\ client' = Called(SitemapURL)
    /\ \E fetched \in {FetchSitemapOn(client.responses[SitemapURL])} :
          main' = [main EXCEPT !.pc = "done", !.sitemap = fetched.sitemap,
                               !.err = fetched.err, !.lines = fetched.lines]
    /\ UNCHANGED <<fs, workers>>
    /\ UNCHANGED shared

\* service.FilterURLs(sitemap, tt.pathFilter)
FilterURLsCall ==
    /\ mainPc = "sitemap"
    /\ main.pc = "FilterURLs"
    /\ \E filtered \in {FilterURLs(main.sitemap, main.pathFilter)} :
          main' = [main EXCEPT !.pc = "filtered", !.urls = filtered.urls,
                               !.lines = filtered.lines]
    /\ UNCHANGED <<client, fs, workers>>
    /\ UNCHANGED shared

\* service.GetURLsFromSitemap("https://example.com/sitemap.xml", pathFilter)
GetURLsFromSitemapCall ==
    /\ mainPc = "sitemap"
    /\ main.pc = "GetURLsFromSitemap"
    /\ client' = Called(SitemapURL)
    /\ \E got \in {GetURLsOf(FetchSitemapOn(client.responses[SitemapURL]),
                             main.pathFilter)} :
          main' = [main EXCEPT !.pc = "returned", !.urls = got.urls,
                               !.err = got.err, !.lines = got.lines]
    /\ UNCHANGED <<fs, workers>>
    /\ UNCHANGED shared

SitemapNext == FetchSitemapCall \/ FilterURLsCall \/ GetURLsFromSitemapCall

SitemapSpec == SitemapInit /\ [][SitemapNext]_vars

RECURSIVE Nested(_, _, _)
\* The tokens are those of well-formed XML after a part that left the
\* elements of `stack` open; rooted = the root element has been opened.
Nested(body, stack, rooted) ==
    IF body = <<>> THEN stack = <<>> /\ rooted
    ELSE IF body[1].kind = "bad" THEN FALSE
    ELSE IF body[1].kind = "text"
      THEN stack # <<>> /\ Nested(Tail(body), stack, rooted)
    ELSE IF body[1].kind = "start"
      THEN /\ stack # <<>> \/ ~rooted
           /\ Nested(Tail(body), Append(stack, body[1].name), TRUE)
    ELSE /\ stack # <<>>
         /\ stack[Len(stack)] = body[1].name
         /\ Nested(Tail(body), SubSeq(stack, 1, Len(stack) - 1), rooted)

\* The body is a well-formed XML document: one root element, every element
\* closed in order, and nothing outside the root.
WellFormed(body) == Nested(body, <<>>, FALSE)

\* The place of the first token of the body that is not character data, one
\* past its end if there is none.
FirstTag(body) ==
    IF \A k \in DOMAIN body : body[k].kind = "text" THEN Len(body) + 1
    ELSE CHOOSE k \in DOMAIN body :
            body[k].kind # "text" /\ \A j \in 1..(k - 1) : body[j].kind = "text"

\* The body has a first element, and its name.
HasElement(body) ==
    FirstTag(body) <= Len(body) /\ body[FirstTag(body)].kind = "start"
FirstElement(body) == body[FirstTag(body)].name

\* The first element of the body is well-formed up to its end tag.
FirstElementClosed(body) ==
    \E e \in FirstTag(body)..Len(body) : WellFormed(SubSeq(body, FirstTag(body), e))

\* The answer the client was set up with.
SitemapAnswer == client.responses[SitemapURL]

\* FetchSitemap was called and has returned; GetURLsFromSitemap has.
FetchSitemapReturned == mainPc = "sitemap" /\ main.pc = "done"
GetURLsReturned == mainPc = "sitemap" /\ main.pc = "returned"

\* The Get failed, or the response is not a 2xx one, or its body cannot be
\* read.
FetchFailed ==
    \/ SitemapAnswer.err
    \/ SitemapAnswer.StatusCode < 200
    \/ SitemapAnswer.StatusCode >= 300
    \/ SitemapAnswer.readErr

\* C28 as stated: FetchSitemap makes one Get; it returns an error and no
\* sitemap when the request fails, the status is outside 2xx, or the body is
\* not well-formed XML; for a well-formed document whose root is not a
\* urlset it returns an empty list, a warning line and no error;
\* GetURLsFromSitemap returns a fetch error with a nil list.
C28_NotWellFormedIsError ==
    /\ FetchSitemapReturned =>
          /\ client.callCount[SitemapURL] = 1
          /\ (FetchFailed \/ ~WellFormed(SitemapAnswer.body)) =>
                main.err # "nil" /\ main.sitemap.nil
          /\ (/\ ~FetchFailed
              /\ WellFormed(SitemapAnswer.body)
              /\ FirstElement(SitemapAnswer.body) # "urlset") =>
                /\ main.err = "nil"
                /\ main.sitemap = Sitemap(<<>>)
                /\ main.lines[Len(main.lines)] = WarningLine
    /\ GetURLsReturned =>
          /\ client.callCount[SitemapURL] = 1
          /\ (FetchFailed \/ ~WellFormed(SitemapAnswer.body)) =>
                main.err # "nil" /\ main.urls = NilSlice

\* C28: FetchSitemap makes one Get; it returns an error and no sitemap when
\* the request fails, the status is outside 2xx, the body has no element, or
\* its first element is a urlset that is not well-formed up to its end tag;
\* for a body whose first element is not a urlset, well-formed or not, it
\* returns an empty list, a warning line and no error; GetURLsFromSitemap
\* returns a fetch error with a nil list.
C28_FetchSitemapErrors ==
    /\ FetchSitemapReturned =>
          /\ client.callCount[SitemapURL] = 1
          /\ (\/ FetchFailed
              \/ ~HasElement(SitemapAnswer.body)
              \/ /\ FirstElement(SitemapAnswer.body) = "urlset"
                 /\ ~FirstElementClosed(SitemapAnswer.body)) =>
                main.err # "nil" /\ main.sitemap.nil
          /\ (/\ ~FetchFailed
              /\ HasElement(SitemapAnswer.body)
              /\ FirstElement(SitemapAnswer.body) # "urlset") =>
                /\ main.err = "nil"
                /\ main.sitemap = Sitemap(<<>>)
                /\ main.lines[Len(main.lines)] = WarningLine
    /\ GetURLsReturned =>
          /\ client.callCount[SitemapURL] = 1
          /\ (\/ FetchFailed
              \/ ~HasElement(SitemapAnswer.body)
              \/ /\ FirstElement(SitemapAnswer.body) = "urlset"
                 /\ ~FirstElementClosed(SitemapAnswer.body)) =>
                main.err # "nil" /\ main.urls = NilSlice

\* FetchSitemap was served <rss><channel>, cut short there, and has returned
\* an empty list and the warning.
C28_Witness ==
    /\ FetchSitemapReturned
    /\ SitemapAnswer.StatusCode = 200
    /\ SitemapAnswer.body = << StartElement("rss"), StartElement("channel") >>
    /\ main.err = "nil"
    /\ main.sitemap = Sitemap(<<>>)
    /\ main.lines = << FetchingLine, WarningLine >>

\* FilterURLs was called and has returned.
FilterURLsReturned == mainPc = "sitemap" /\ main.pc = "filtered"

\* The locations of the sitemap given to FilterURLs, in its order.
LocsGiven == [k \in DOMAIN main.sitemap.URLs |-> main.sitemap.URLs[k].Loc]

\* The location has main.pathFilter somewhere in it.
HasPathFilter(loc) ==
    \E a \in 0..Len(loc) : \E b \in a..Len(loc) :
        SubSeq(loc, a + 1, b) = main.pathFilter

\* A "Filtered to" line was logged.
FilteredLogged == \E k \in DOMAIN main.lines : main.lines[k].line = "Filtered to"

\* C29: FilterURLs returns the locations of the sitemap that contain
\* pathFilter, each as often as the sitemap has it and in the sitemap's
\* order; all of them when pathFilter is empty; it logs a "Filtered to"
\* line, with the number returned, exactly when pathFilter is not empty.
C29_FilterURLsSelects ==
    FilterURLsReturned =>
        /\ main.urls.elems = SelectSeq(LocsGiven, HasPathFilter)
        /\ main.pathFilter = <<>> => main.urls.elems = LocsGiven
        /\ FilteredLogged <=> main.pathFilter # <<>>
        /\ main.pathFilter # <<>> =>
              main.lines = << FilteredLine(Len(main.urls.elems), main.pathFilter) >>

\* /docs has kept the one location of two that has it.
C29_Witness ==
    /\ FilterURLsReturned
    /\ main.pathFilter = << "/", "docs" >>
    /\ LocsGiven = << Origin \o << "/", "blog", "/" >>,
                      Origin \o << "/", "docs", "/", "api" >> >>
    /\ main.urls.elems = << Origin \o << "/", "docs", "/", "api" >> >>
    /\ FilteredLogged

----------------------------------------------------------------------------
\* The scrape command. config holds, with the Config the command builds,
\* what it was started with: sitemap = the --sitemap flag is set, args the
\* number of arguments, entry the function entered (RunE, or
\* runScrapeCommand as the test calls it). urls is what the URL source
\* holds, the lines of the file or of stdin or the locations of the sitemap
\* that pass the filter; whether reading it fails is decided when it is read.

CommandWorkers == {1, 2}

CommandInit ==
    /\ config \in [MaxRetries : {BatchMaxRetries}, Workers : CommandWorkers,
                   sitemap : BOOLEAN, args : 0..1,
                   entry : {"RunE", "runScrapeCommand"}]
    /\ config.entry = "runScrapeCommand" => ~config.sitemap /\ config.args = 0
    /\ client = AnyClient
    /\ fs = AnyFileSystem
    /\ urls \in Lists
    /\ main = Idle
    /\ workers = EmptyBag
    /\ mainPc = IF config.entry = "RunE" THEN "RunE" ELSE "ScrapeURLs"
    /\ i = 0
    /\ numWorkers = 0
    /\ wg = 0
    /\ jobs = <<>>
    /\ jobsClosed = FALSE
    /\ results = <<>>
    /\ resultsClosed = FALSE
    /\ waiterPc = "none"
    /\ successCount = 0
    /\ errorCount = 0
    /\ messages = EmptyBag
    /\ ret = "none"

\* RunE returns err without calling runScrapeCommand.
Refuse(err) ==
    /\ ret' = err
    /\ mainPc' = "done"

\* RunE without lines 83-85: an empty list is handed to runScrapeCommand.
RunEWithoutEmptyCheck ==
    /\ mainPc = "RunE"
    /\ IF config.sitemap /\ config.args > 0
         THEN Refuse("cannot use both sitemap and URL file")
         ELSE \E failed \in BOOLEAN :
                 IF failed
                   THEN Refuse(IF config.sitemap
                                 THEN "failed to get URLs from sitemap"
                                 ELSE "failed to read URLs")
                   ELSE mainPc' = "ScrapeURLs" /\ UNCHANGED ret
    /\ UNCHANGED <<config, client, fs, urls, main, workers, i, numWorkers, wg, jobs,
                   jobsClosed, results, resultsClosed, waiterPc, successCount,
                   errorCount, messages>>

\* Lines 60-88: RunE of the scrape command up to its call of
\* runScrapeCommand; `failed` = the URL source could not be read.
RunE ==
    /\ mainPc = "RunE"
    /\ IF config.sitemap /\ config.args > 0
         THEN Refuse("cannot use both sitemap and URL file")
         ELSE \E failed \in BOOLEAN :
                 IF failed
                   THEN Refuse(IF config.sitemap
                                 THEN "failed to get URLs from sitemap"
                                 ELSE "failed to read URLs")
                 ELSE IF Len(urls) = 0 THEN Refuse("no URLs found to scrape")
                 ELSE mainPc' = "ScrapeURLs" /\ UNCHANGED ret
    /\ UNCHANGED <<config, client, fs, urls, main, workers, i, numWorkers, wg, jobs,
                   jobsClosed, results, resultsClosed, waiterPc, successCount,
                   errorCount, messages>>

CommandNext == RunE \/ Next

CommandSpec == CommandInit /\ [][CommandNext]_vars

\* The command or the call has returned.
CommandReturned == mainPc = "done" /\ "entry" \in DOMAIN config

\* The errors RunE returns for a URL source it did not read or could not.
SourceErrors == {"cannot use both sitemap and URL file",
                 "failed to get URLs from sitemap", "failed to read URLs"}

\* Nothing of the pipeline has run: no line logged, no worker, no count.
PipelineNotStarted ==
    /\ messages = EmptyBag
    /\ workers = EmptyBag
    /\ main = Idle
    /\ numWorkers = 0
    /\ successCount = 0 /\ errorCount = 0

\* C30: the scrape command whose URL source yields a list returns an error
\* exactly when the list is empty, the error being "no URLs found to
\* scrape", and then nothing of the pipeline has run or will; it refuses
\* --sitemap with a URL file likewise; with a list that is not empty it
\* returns nil. runScrapeCommand called with an empty list returns nil and
\* logs the summary of 0 successful and 0 errors, and no line about an item.
C30_ZeroIdentifiersFatalInCommandOnly ==
    /\ (mainPc # "RunE" /\ "entry" \in DOMAIN config /\ config.entry = "RunE"
        /\ ret \notin SourceErrors) =>
          /\ urls = <<>> =>
                /\ ret = "no URLs found to scrape"
                /\ mainPc = "done"
                /\ PipelineNotStarted
                /\ ~ENABLED CommandNext
          /\ urls # <<>> => ret \in {"none", "nil"}
          /\ (urls # <<>> /\ mainPc = "done") => ret = "nil"
    /\ ("entry" \in DOMAIN config /\ config.sitemap /\ config.args > 0
        /\ mainPc # "RunE") =>
          /\ ret = "cannot use both sitemap and URL file"
          /\ PipelineNotStarted
          /\ ~ENABLED CommandNext
    /\ (CommandReturned /\ config.entry = "runScrapeCommand" /\ urls = <<>>) =>
          /\ ret = "nil"
          /\ \A l \in BagToSet(messages) :
                l \in {CompletedLine(0, 0), StartingLine(0, 0)}
          /\ CopiesIn(CompletedLine(0, 0), messages) = 1

\* The command has read a URL file with no line in it and returned the
\* error.
C30_Witness ==
    /\ CommandReturned
    /\ config.entry = "RunE"
    /\ ~config.sitemap
    /\ config.args = 1
    /\ urls = <<>>
    /\ ret = "no URLs found to scrape"
    /\ PipelineNotStarted

----------------------------------------------------------------------------
\* Properties of a batch run against the mocks, checked under DiskSpec.

\* The number of lines of kind t logged.
LinesOf(t) == CountIn(messages, {l \in BagToSet(messages) : l.line = t})

\* The number of lines of kind t logged for the k-th identifier.
LinesFor(t, k) == CopiesIn([line |-> t, idx |-> k], messages)

\* The places of urls whose identifier is fixed to fail in ScrapeURL (the
\* fetch or the extraction), in GetOutputPath, in SaveMarkdown.
FixedScrapeFailures ==
    {k \in Items : \/ client.responses[urls[k]] # Response(200)
                    \/ ~client.matches[urls[k]]}
FixedPathFailures ==
    {k \in Items \ FixedScrapeFailures : fs.refused = "MkdirAll"}
FixedSaveFailures ==
    {k \in Items \ FixedScrapeFailures : fs.refused \in {"Create", "Write"}}

\* C31 as stated: after ScrapeURLs the "Saved" lines are as many as the
\* identifiers that succeed and the "Error scraping" lines as many as those
\* that fail, in both modes and whatever the step that fails, and every
\* identifier has exactly one line of the two kinds.
C31_ErrorScrapingForEveryFailure ==
    (client.mock /\ fs.observed /\ mainPc = "done") =>
        /\ LinesOf("Saved") = Cardinality(FixedSuccesses)
        /\ LinesOf("Error scraping") = Len(urls) - Cardinality(FixedSuccesses)
        /\ \A k \in Items : LinesFor("Saved", k) + LinesFor("Error scraping", k) = 1

\* C31: after ScrapeURLs the "Saved" lines are as many as the identifiers
\* that succeed and the error lines as many as those that fail; in
\* concurrent mode every failure is an "Error scraping" line, in sequential
\* mode a failed fetch or extraction is, a failed path resolution is an
\* "Error determining output path" line and a failed save an "Error saving"
\* line; every identifier has exactly one of these lines.
C31_OneResultLinePerIdentifier ==
    (client.mock /\ fs.observed /\ mainPc = "done") =>
        /\ LinesOf("Saved") = Cardinality(FixedSuccesses)
        /\ LinesOf("Error scraping") + LinesOf("Error determining output path")
              + LinesOf("Error saving") = Len(urls) - Cardinality(FixedSuccesses)
        /\ \A k \in Items :
              /\ LineCount(k) = 1
              /\ LinesFor("Saved", k) = 1 <=> k \in FixedSuccesses
              /\ config.Workers > 1 =>
                    (LinesFor("Error scraping", k) = 1 <=> k \notin FixedSuccesses)
              /\ config.Workers <= 1 =>
                    /\ LinesFor("Error scraping", k) = 1 <=> k \in FixedScrapeFailures
                    /\ LinesFor("Error determining output path", k) = 1
                          <=> k \in FixedPathFailures
                    /\ LinesFor("Error saving", k) = 1 <=> k \in FixedSaveFailures

\* A sequential run of two identifiers on a disk that refuses Create has
\* ended: the first failed in its fetch, the second in its save.
C31_Witness ==
    /\ client.mock /\ fs.observed /\ mainPc = "done"
    /\ config.Workers = 1
    /\ Len(urls) = 2
    /\ fs.refused = "Create"
    /\ LinesFor("Error scraping", 1) = 1
    /\ LinesFor("Error saving", 2) = 1
    /\ LinesOf("Saved") = 0

\* The places of urls whose identifier gets through ScrapeURL.
Scraped == Items \ FixedScrapeFailures

\* C32: an item is at GetOutputPath only after its fetch and its extraction
\* succeeded, and at SaveMarkdown only after GetOutputPath made its
\* directory; an identifier whose fetch or extraction fails causes no
\* operation on the file system: every directory made lies on the path of an
\* identifier that got through ScrapeURL, every file is at the path of one,
\* and Create was called for a path no more often than such identifiers
\* resolve to it, so that a batch of identifiers that all fail there leaves
\* the disk as it was.
C32_NoFileSystemOperationBeforeExtraction ==
    (client.mock /\ fs.observed) =>
        /\ \A f \in Goroutines :
              /\ f.pc \in {"extract", "path", "save"} =>
                    client.callCount[f.url] >= 1
              /\ f.pc \in {"path", "save"} => f.idx \in Scraped
              /\ f.pc = "save" => Dir(OutputPathOf(f.url)) \in fs.directories
        /\ fs.directories
              \subseteq UNION {Ancestors(Dir(OutputPathOf(urls[k]))) : k \in Scraped}
        /\ DOMAIN fs.files \subseteq {OutputPathOf(urls[k]) : k \in Scraped}
        /\ \A name \in BagToSet(fs.createdFiles) :
              Creations(name)
                 <= Cardinality({k \in Scraped : OutputPathOf(urls[k]) = name})
        /\ Scraped = {} =>
              fs.directories = {} /\ fs.files = << >> /\ fs.createdFiles = EmptyBag

\* A batch of two identifiers has ended: the extraction of the first failed,
\* the second was saved, and the one file on the disk is that of the second.
C32_Witness ==
    /\ client.mock /\ fs.observed /\ mainPc = "done"
    /\ Len(urls) = 2
    /\ client.responses[urls[1]] = Response(200)
    /\ ~client.matches[urls[1]]
    /\ DOMAIN fs.files = {OutputPathOf(urls[2])}
    /\ OutputPathOf(urls[1]) # OutputPathOf(urls[2])
    /\ BagCardinality(fs.createdFiles) = 1

----------------------------------------------------------------------------
\* Properties of the two channels of scrapeConcurrent, checked under Spec.

\* C33: in scrapeConcurrent neither buffer ever holds more than len(urls)
\* elements; the producer at a send finds room in jobs and jobs open, and a
\* worker at its send finds room in results and results open, so neither
\* blocks nor panics; the producer stands at close(jobs) with jobs open and
\* every Job sent, and wg.Wait() returns to close(results) with results open
\* and every worker returned; once closed, the producer is past its close
\* and the waiter has ended, so neither channel is closed a second time.
C33_ChannelsClosedOnceSendsNeverBlock ==
    config.Workers > 1 =>
        /\ Len(jobs) <= Len(urls)
        /\ Len(results) <= Len(urls)
        /\ mainPc = "send" => Len(jobs) < Len(urls) /\ ~jobsClosed
        /\ \A f \in Running :
              /\ f.pc = "result" => Len(results) < Len(urls) /\ ~resultsClosed
              /\ f.pc # "panic"
        /\ mainPc = "close" => ~jobsClosed /\ i = Len(urls)
        /\ jobsClosed => mainPc \in {"go", "collect", "done"} /\ i = Len(urls)
        /\ (waiterPc = "wait" /\ wg = 0) => ~resultsClosed /\ WorkersDone
        /\ resultsClosed => waiterPc = "done" /\ WorkersDone /\ jobsClosed
        /\ waiterPc = "done" => resultsClosed

\* Three workers hold a Result each to send and results is empty and open:
\* the buffer has room for all of them.
C33_Witness ==
    /\ config.Workers > 1
    /\ Len(urls) = 3
    /\ jobsClosed
    /\ ~resultsClosed
    /\ results = <<>>
    /\ CountIn(workers, {f \in Running : f.pc = "result"}) = 3

----------------------------------------------------------------------------
\* Where GetOutputPath and SaveMarkdown write, checked under PathSpec.

\* A call of GetOutputPath has returned a path and no error.
ResolvedRounds ==
    {k \in 1..Len(main.returned) :
        main.returned[k].call = "GetOutputPath" /\ ~main.returned[k].err}

\* C34: every path GetOutputPath returns for an identifier that parses lies
\* inside the output root, ".." segments in the identifier or not, and so do
\* the directory it creates for the path and every file on the disk.
C34_OutputPathInsideRoot ==
    mainPc = "resolve" =>
        /\ \A k \in ResolvedRounds :
              /\ Within(main.returned[k].outputPath, main.baseDir)
              /\ Within(Dir(main.returned[k].outputPath), main.baseDir)
        /\ \A name \in DOMAIN fs.files : Within(name, main.baseDir)

----------------------------------------------------------------------------
\* One call of ScrapeURL with the response bodies it obtains: every response
\* client.Get hands out carries a body, open, and the model counts the
\* Close calls made on each.

BodyMaxRetries == 2     \* largest Config.MaxRetries of a ScrapeURL call watched for its bodies

\* The body of the response r as client.Get returns it.
NewBody(r) == [StatusCode |-> r.StatusCode, closes |-> 0]

\* bodies with b obtained and Close called on it.
ObtainedAndClosed(bodies, b) == Append(bodies, [b EXCEPT !.closes = @ + 1])

\* Body.Close() on the k-th body obtained.
CloseBody(bodies, k) == [bodies EXCEPT ![k].closes = @ + 1]

\* ScrapeURL returning without the deferred Close.
ScrapeURLReturnsBodyOpen(p, rv) ==
    [p EXCEPT !.pc = "done", !.ret = rv]

\* ScrapeURL returns: the deferred resp.Body.Close() of line 150 runs when
\* the defer statement was reached, that is when FetchWithRetries returned a
\* response (p.resp is its place in bodies, 0 when there is none).
ScrapeURLReturns(p, rv) ==
    [p EXCEPT !.pc = "done", !.ret = rv,
              !.bodies = IF p.resp > 0 THEN CloseBody(p.bodies, p.resp) ELSE p.bodies]

\* Lines 88-93 and 114, 146-148: the loop condition and the branch on
\* attempt > 0; when the loop ends FetchWithRetries returns the
\* exhausted-retries error and ScrapeURL returns it.
ScrapeURLLoopHead(p) ==
    IF p.attempt <= config.MaxRetries
      THEN [p EXCEPT !.pc = IF p.attempt > 0 THEN "sleep" ELSE "get"]
      ELSE ScrapeURLReturns(p, "exhausted")

\* Lines 95-111 and 145-150: what FetchWithRetries does with the answer r of
\* client.Get and its body, and ScrapeURL with what FetchWithRetries returns.
ScrapeURLAfterGet(p, r) ==
    IF r.err
      THEN ScrapeURLLoopHead([p EXCEPT !.attempt = @ + 1])
    ELSE IF r.StatusCode >= 200 /\ r.StatusCode < 300
      THEN [p EXCEPT !.pc = "read",
                     !.bodies = Append(@, NewBody(r)),
                     !.resp = Len(p.bodies) + 1]
    ELSE IF r.StatusCode = 404
      THEN ScrapeURLReturns([p EXCEPT !.bodies = ObtainedAndClosed(@, NewBody(r))],
                            "notfound")
    ELSE ScrapeURLLoopHead([p EXCEPT !.bodies = ObtainedAndClosed(@, NewBody(r)),
                                     !.attempt = @ + 1])

BodyInit ==
    /\ config \in [MaxRetries : (-1)..BodyMaxRetries, Workers : {1}]
    /\ client = AnyClient
    /\ fs = AnyFileSystem
    /\ urls = <<>>
    /\ \E u \in URLS :
         main = ScrapeURLLoopHead([pc |-> "entry", url |-> u, attempt |-> 0,
                                   bodies |-> <<>>, resp |-> 0, ret |-> "none"])
    /\ workers = EmptyBag
    /\ mainPc = "ScrapeURL"
    /\ i = 0
    /\ numWorkers = 0
    /\ wg = 0
    /\ jobs = <<>>
    /\ jobsClosed = FALSE
    /\ results = <<>>
    /\ resultsClosed = FALSE
    /\ waiterPc = "none"
    /\ successCount = 0
    /\ errorCount = 0
    /\ messages = EmptyBag
    /\ ret = "none"

\* Line 95 and what follows: one client.Get, answered r.
ScrapeURLGet(r) ==
    /\ mainPc = "ScrapeURL"
    /\ main.pc = "get"
    /\ Answers(main.url, r)
    /\ client' = Called(main.url)
    /\ main' = ScrapeURLAfterGet(main, r)
    /\ UNCHANGED <<fs, workers>>
    /\ UNCHANGED shared

\* Lines 89-93: the sleep before a retry.
ScrapeURLSleep ==
    /\ mainPc = "ScrapeURL"
    /\ main.pc = "sleep"
    /\ main' = [main EXCEPT !.pc = "get"]
    /\ UNCHANGED <<client, fs, workers>>
    /\ UNCHANGED shared

\* Lines 152-155: io.ReadAll(resp.Body); ok = it read the body to its end.
ScrapeURLReadAll(ok) ==
    /\ mainPc = "ScrapeURL"
    /\ main.pc = "read"
    /\ main' = IF ok THEN [main EXCEPT !.pc = "extract"]
                     ELSE ScrapeURLReturns(main, "read error")
    /\ UNCHANGED <<client, fs, workers>>
    /\ UNCHANGED shared

\* Line 157: return s.ExtractContent(...); ok = it returned markdown.
ScrapeURLExtractContent(ok) ==
    /\ mainPc = "ScrapeURL"
    /\ main.pc = "extract"
    /\ main' = ScrapeURLReturns(main, IF ok THEN "markdown" ELSE "extraction error")
    /\ UNCHANGED <<client, fs, workers>>
    /\ UNCHANGED shared

BodyNext ==
    \/ \E r \in Responses : ScrapeURLGet(r)
    \/ ScrapeURLSleep
    \/ \E ok \in BOOLEAN : ScrapeURLReadAll(ok)
    \/ \E ok \in BOOLEAN : ScrapeURLExtractContent(ok)

BodySpec == BodyInit /\ [][BodyNext]_vars

\* The body came with a 2xx status.
Body2xx(b) == b.StatusCode >= 200 /\ b.StatusCode < 300

\* C35: every body the call obtained is closed once or not yet, never twice;
\* a non-2xx body is closed once by the time the next step is taken; a 2xx
\* body is the last obtained, is the one FetchWithRetries returned, and is
\* open while ScrapeURL reads and extracts; and when ScrapeURL has returned,
\* with a fetch error, a read error, an extraction error or the markdown,
\* every body obtained has been closed exactly once.
C35_EveryBodyClosedOnce ==
    mainPc = "ScrapeURL" =>
        /\ \A k \in 1..Len(main.bodies) :
              /\ main.bodies[k].closes <= 1
              /\ ~Body2xx(main.bodies[k]) => main.bodies[k].closes = 1
              /\ Body2xx(main.bodies[k]) =>
                    /\ k = Len(main.bodies) /\ k = main.resp
                    /\ main.pc \in {"read", "extract", "done"}
                    /\ main.pc \in {"read", "extract"} => main.bodies[k].closes = 0
              /\ main.pc = "done" => main.bodies[k].closes = 1
        /\ main.pc \in {"read", "extract"} => main.resp = Len(main.bodies) /\ main.resp > 0
        /\ main.ret \in {"read error", "extraction error", "markdown"} =>
              main.resp > 0 /\ main.bodies[main.resp].closes = 1

\* ScrapeURL has returned an extraction error after three responses, two
\* that were retried and a 2xx one.
C35_Witness ==
    /\ mainPc = "ScrapeURL"
    /\ main.pc = "done"
    /\ main.ret = "extraction error"
    /\ Len(main.bodies) = 3
    /\ main.bodies[3].StatusCode = 299

\* C36: SaveMarkdown returns an error when the Close of the file it created
\* fails, so that an item is a success only if its file was created, written
\* and closed without error.
C36_CloseFailureIsAnError ==
    mainPc = "resolve" =>
        \A k \in 1..Len(main.returned) :
            (main.returned[k].call = "SaveMarkdown" /\ fs.refused = "Close") =>
                main.returned[k].err

----------------------------------------------------------------------------
\* FetchWithRetries for every MaxRetries, checked under FetchSpec.

----------------------------------------------------------------------------
\* Sequential and concurrent mode compared, checked under DiskSpec.

\* The disk f after scrapeSequential has processed an identifier u whose
\* fetch and extraction succeed: GetOutputPath, then SaveMarkdown.
DiskAfterItem(f, u) ==
    IF MkdirAllFor(f, OutputPaths[u]).err THEN f
    ELSE Saved(MkdirAll(f, Dir(OutputPathOf(u))), MarkdownOf(u), OutputPathOf(u))

RECURSIVE SequentialDisk(_, _)
\* The disk after scrapeSequential has processed the places k, k+1, ... of
\* urls in this order, starting on disk f.
SequentialDisk(k, f) ==
    IF k > Len(urls) THEN f
    ELSE IF k \in FixedScrapeFailures THEN SequentialDisk(k + 1, f)
    ELSE SequentialDisk(k + 1, DiskAfterItem(f, urls[k]))

\* The Get calls a run in sequential mode makes for the identifier u.
SequentialGets(u) ==
    Occurrences(u) * (IF Definitive(u) THEN 1 ELSE config.MaxRetries + 1)

\* C38: a batch run against the mocks ends, with Workers <= 1 and with any
\* Workers > 1 alike, with the success and error counts, the output files
\* and their contents, and the number of Get calls per identifier that the
\* run in sequential mode ends with.
C38_ModesEndAlike ==
    (fs.observed /\ client.mock /\ mainPc = "done") =>
        /\ successCount = Cardinality(FixedSuccesses)
        /\ errorCount = Len(urls) - Cardinality(FixedSuccesses)
        /\ fs.files = SequentialDisk(1, Disk(fs.refused)).files
        /\ \A u \in DOMAIN client.callCount :
              client.callCount[u] = SequentialGets(u)

====
